---- MODULE Spec2Model ----
(***************************************************************************)
(* A model of app/main.py of soula-gate-text-to-audio: the text segmenter  *)
(* (smart_text_split), the Audio Result Cache (get_cached_audio,           *)
(* cache_audio), the Engine Handle Cache (get_pipeline) and the two        *)
(* request handlers (POST /tts and the wav_stream generator of             *)
(* POST /tts/stream).                                                      *)
(*                                                                         *)
(* Strings are sequences of one-character strings, so that strip(),        *)
(* split() and re.split() are computed character by character.            *)
(***************************************************************************)
EXTENDS Integers, Sequences, FiniteSets, TLC

(***************************************************************************)
(* Bounds of the model.                                                    *)
(***************************************************************************)
\* Longest request text explored, in characters.
MaxTextLen == 6
\* Largest max_words (TTSRequest.max_chunk_words) explored.  The texts of
\* the model hold at most (MaxTextLen + 1) \div 2 words, so the small values
\* are the ones under which a text is split at all.
MaxWordsBound == 2

\* The characters of the request texts: two letters, the whitespace, one
\* sentence terminator of the class [.!?] and the comma.
Alphabet == {"a", "b", " ", ".", ","}

\* The capacity of the Audio Result Cache.  The source sets 100 and evicts
\* 100 // 5 entries in a pass; the model keeps the division and scales the
\* capacity to the smallest value whose fifth is not zero.
max_cache_size == 5
\* The TTL of a cached audio (3600 s).  The model's clock counts in units of
\* the TTL, so an entry's age is 0 (fresh), 1 (the TTL has just been reached)
\* or more.
cache_ttl == 1
\* The model's clock stops after two TTLs: long enough for an entry to be
\* fresh, to have reached the TTL and to have passed it.
MaxTime == 2 * cache_ttl
\* The cache keys (the md5 digests of distinct requests): one more than the
\* capacity, so that a full cache can meet a key it does not hold.
CacheKeys == {"k1", "k2", "k3", "k4", "k5", "k6"}
\* What the maintenance loop may read as _stats["total_requests"].
TotalRequestsSeen == {0, 1, 25}

\* The population of the Engine Handle Cache above which get_pipeline evicts.
MaxPipelines == 5
\* The language codes requested: one more than the cache may keep.
LangCodes == {"a", "b", "e", "f", "h", "i"}
\* The threads that call get_pipeline: two workers of audio_executor, and
\* the event-loop thread, on which the coroutines health_check and
\* warmup_pipelines call it directly.
Threads == {"w1", "w2", "loop"}
\* The language codes a thread asks get_pipeline for: a worker those of the
\* requests, the event-loop thread "a" (health_check) and "a", "e"
\* (warmup_pipelines).
LangsOf(t) == IF t = "loop" THEN {"a", "e"} ELSE LangCodes

\* The threads of audio_executor that call get_pipeline at the same time:
\* two for the same locale and one for any other.
Callers == {"w1", "w2", "w3"}
SharedLang == "a"
LangsCalledBy(t) == IF t = "w3" THEN LangCodes \ {SharedLang} ELSE {SharedLang}

\* The cache keys of the units that generate_audio_sync is called for.
SynthKeys == {"k1", "k2", "k3"}

\* Most text units of a request.
MaxUnits == 3
\* What os.cpu_count() may return (0 stands for None).
CpuCounts == {0, 6, 16}
\* What the engine does with a unit that misses the cache: it yields audio,
\* it yields nothing, the call raises, or get_pipeline raised before it
\* (the construction of the engine handle failed, line 208).
SynthOutcomes == {"ok", "empty", "raise", "no_engine"}

\* The components of a cache lookup: unit texts and voice names, with and
\* without the character that joins them in the key; speeds in tenths
\* (TTSRequest.speed is a float in 0.5..2.0); language codes.
KeyTexts == {<<"a">>, <<"a", ":", "b">>, <<"b">>}
KeyVoices == {<<"v">>, <<"b", ":", "v">>}
KeySpeeds == {10, 15}
KeyLangs == {<<"a">>, <<"e">>}

\* The threads that operate on the Audio Result Cache: two workers of
\* audio_executor (generate_audio_sync), and the event-loop thread running
\* cleanup_task and clear_cache.
CacheWorkers == {"w1", "w2"}
CacheThreads == CacheWorkers \cup {"cleanup", "admin"}
\* The keys those workers look up and store.
WorkerKeys == {"k1", "k2"}

\* The bytes a payload is made of: a plain byte, a line feed, a dash, and
\* "frame" for the five bytes of that word (the boundary is "--frame").
PayloadBytes == {"x", "LF", "-", "frame"}
\* Longest payload, in bytes, and most fragments of a stream.
MaxPayloadLen == 3
MaxFragments == 2
\* The content types wav_stream gives its parts.
ContentTypes == {"audio/wav", "text/plain; charset=utf-8"}

VARIABLES
    \* ---- segmenter ----
    text,          \* the request text typed so far (a sequence of characters)
    max_words,     \* the bound passed to smart_text_split (0: not called yet)
    text_chunks,   \* the list smart_text_split returned
    seg_pc,        \* "input" | "split" | "rejected"
    \* ---- Audio Result Cache ----
    audio_cache,   \* _audio_cache: the dict's entries in insertion order
    now,           \* what time.time() returns
    cache_evicted, \* how many entries the last operation, if a put, evicted
    \* ---- Engine Handle Cache ----
    pipeline_cache, \* _pipeline_cache: the language codes in insertion order
    cache_lock,     \* the thread that holds _cache_lock, or "free"
    thr_pc,         \* per thread: "idle" | "inserted" | "using" | "failed"
    thr_lang,       \* per thread: the lang_code of its call ("" when idle)
    thr_evicted,    \* per thread: its handle was deleted from the cache while in use
    \* ---- one request: POST /tts or POST /tts/stream ----
    optimal_workers, \* set when the module is imported (0 before)
    mode,            \* "none" | "batch" | "stream"
    handler_pc,      \* where the handler (tts, or the wav_stream generator) stands
    n_units,         \* len(text_chunks)
    sem_limit,       \* the semaphore's initial value (0: the request has none)
    sem,             \* the semaphore's value
    unit_state,      \* per unit: "pending" | "running" | "returned" | "done",
                     \* or "skipped" (stream: its chunk was put empty)
    synth_outcome,   \* per unit: what the engine did ("none" before)
    unit_audio,      \* per unit: what generate_audio_sync returned ("none" before)
    completed,       \* the units in the order their worker threads returned
    prod_pc,         \* where the task chunk_producer stands ("none": not created)
    prod_i,          \* the unit chunk_producer is at
    cancel_requested, \* producer_task.cancel() was called
    queue,           \* chunk_queue
    stream_end,      \* why the consumer loop ended ("none" while it runs)
    emitted,         \* the frames yielded (stream), the audio concatenated (batch)
    disconnected,    \* the client's disconnect reached the generator
    resp_status,     \* the status of the batch response ("none" before)
    stats,           \* _stats: the counters of requests
    \* ---- two lookups of the Audio Result Cache ----
    lookup_a,        \* the (text, voice, speed, lang) of the first, or "none"
    lookup_b,        \* the same of the second
    key_a,           \* the key get_audio_cache_key returned for the first
    key_b,           \* the same for the second
    \* ---- the threads that operate on the Audio Result Cache ----
    audio_lock,      \* the thread that holds _audio_cache_lock, or "free"
    op_pc,           \* per thread: where it stands in its operation ("idle")
    op_key,          \* per thread: the key of its get or put ("" otherwise)
    expired_keys,    \* cleanup_task's list expired_keys
    \* ---- the bytes of a streaming response and their parse ----
    sent,            \* the fragments yielded: records of content type and payload
    raw,             \* the bytes of the response body so far
    parsed,          \* what parse_multipart_stream makes of raw
    frame_pc,        \* "open" | "closed" (terminator sent) | "parsed"
    \* ---- the texts a handler hands to generate_audio_sync ----
    submitted,       \* the text_chunk arguments of the calls, in unit order
    \* ---- the three locks ----
    todo,            \* per thread: the lock operations left of its code path
    held,            \* per thread: the locks it holds, outermost first
    \* ---- one call of generate_audio_sync on the Audio Result Cache ----
    call_key,        \* the cache key of the last call ("" before any)
    call_result,     \* what it returned: "none" | "silence" | the audio
    cache_before,    \* the cache when the call began
    \* ---- calls of get_pipeline, from the call to the end of the use ----
    call_pc,         \* per caller: "idle" | "waiting" (for _cache_lock) |
                     \* "returned" (it uses the handle) | "failed"
    call_lang,       \* per caller: the lang_code of its call
    call_handle,     \* per caller: the handle returned, named after the
                     \* caller whose call constructed it
    call_missed,     \* per caller: the locale was not cached when it called
    overlapped,      \* per caller: the callers whose call ran during its call
    built_by         \* per locale in the cache: who constructed its handle

seg_vars == <<text, max_words, text_chunks, seg_pc>>
cache_vars == <<audio_cache, now, cache_evicted>>
pipe_vars == <<pipeline_cache, cache_lock, thr_pc, thr_lang, thr_evicted>>
unit_vars == <<unit_state, synth_outcome, unit_audio, completed>>
prod_vars == <<prod_pc, prod_i, cancel_requested>>
req_vars == <<optimal_workers, mode, handler_pc, n_units, sem_limit, sem, unit_vars,
              prod_vars, queue, stream_end, emitted, disconnected, resp_status, stats>>
key_vars == <<lookup_a, lookup_b, key_a, key_b>>
lock_vars == <<audio_lock, op_pc, op_key, expired_keys>>
frame_vars == <<sent, raw, parsed, frame_pc>>
disp_vars == <<submitted>>
order_vars == <<todo, held>>
synth_vars == <<call_key, call_result, cache_before>>
acq_vars == <<call_pc, call_lang, call_handle, call_missed, overlapped, built_by>>

vars == <<seg_vars, cache_vars, pipe_vars, req_vars, key_vars, lock_vars, frame_vars,
          disp_vars, order_vars, synth_vars, acq_vars>>

(***************************************************************************)
(* Python string primitives.                                               *)
(***************************************************************************)
IsSpace(c) == c = " "

IsSentenceEnd(c) == c \in {".", "!", "?"}

Min(a, b) == IF a <= b THEN a ELSE b

\* str.lstrip / str.rstrip / str.strip
RECURSIVE LStrip(_)
LStrip(s) ==
    IF s # <<>> /\ IsSpace(Head(s)) THEN LStrip(Tail(s)) ELSE s

RECURSIVE RStrip(_)
RStrip(s) ==
    IF s # <<>> /\ IsSpace(s[Len(s)]) THEN RStrip(SubSeq(s, 1, Len(s) - 1)) ELSE s

Strip(s) == RStrip(LStrip(s))

\* The first index >= p of s whose character is not whitespace (Len(s)+1 if none).
RECURSIVE SkipSpace(_, _)
SkipSpace(s, p) ==
    IF p <= Len(s) /\ IsSpace(s[p]) THEN SkipSpace(s, p + 1) ELSE p

\* The first index >= p of s whose character is not in [.!?].
RECURSIVE SkipSentenceEnd(_, _)
SkipSentenceEnd(s, p) ==
    IF p <= Len(s) /\ IsSentenceEnd(s[p]) THEN SkipSentenceEnd(s, p + 1) ELSE p

\* The first index >= p of s whose character is whitespace (Len(s)+1 if none).
RECURSIVE SkipWord(_, _)
SkipWord(s, p) ==
    IF p <= Len(s) /\ ~IsSpace(s[p]) THEN SkipWord(s, p + 1) ELSE p

\* str.split(): the maximal runs of non-whitespace characters.
RECURSIVE SplitWordsFrom(_, _)
SplitWordsFrom(s, p) ==
    LET b == SkipSpace(s, p) IN
    IF b > Len(s) THEN <<>>
    ELSE LET e == SkipWord(s, b) IN
         <<SubSeq(s, b, e - 1)>> \o SplitWordsFrom(s, e)

SplitWords(s) == SplitWordsFrom(s, 1)

\* ' '.join(words)
RECURSIVE JoinWords(_)
JoinWords(ws) ==
    IF ws = <<>> THEN <<>>
    ELSE IF Len(ws) = 1 THEN ws[1]
    ELSE ws[1] \o <<" ">> \o JoinWords(Tail(ws))

\* Where a match of r'[.!?]+\s+' that starts at index p of s ends (the index
\* after it), 0 if none starts there.  The greedy run of terminators must be
\* followed by whitespace; a shorter run is followed by a terminator, so
\* backtracking finds nothing more.
SentenceMatchEnd(s, p) ==
    IF p <= Len(s) /\ IsSentenceEnd(s[p])
    THEN LET q == SkipSentenceEnd(s, p) IN
         IF q <= Len(s) /\ IsSpace(s[q]) THEN SkipSpace(s, q) ELSE 0
    ELSE 0

\* The same for r',\s+': one comma, then whitespace.
CommaMatchEnd(s, p) ==
    IF p < Len(s) /\ s[p] = "," /\ IsSpace(s[p + 1]) THEN SkipSpace(s, p + 1) ELSE 0

\* re.split(r'[.!?]+\s+', s): the pieces between the matches, scanning from
\* the left; the matched text is dropped.
RECURSIVE SplitSentencesFrom(_, _, _)
SplitSentencesFrom(s, p, start) ==
    IF p > Len(s) THEN <<SubSeq(s, start, Len(s))>>
    ELSE LET e == SentenceMatchEnd(s, p) IN
         IF e > 0 THEN <<SubSeq(s, start, p - 1)>> \o SplitSentencesFrom(s, e, e)
         ELSE SplitSentencesFrom(s, p + 1, start)

SplitSentences(s) == SplitSentencesFrom(s, 1, 1)

\* re.split(r',\s+', s)
RECURSIVE SplitCommasFrom(_, _, _)
SplitCommasFrom(s, p, start) ==
    IF p > Len(s) THEN <<SubSeq(s, start, Len(s))>>
    ELSE LET e == CommaMatchEnd(s, p) IN
         IF e > 0 THEN <<SubSeq(s, start, p - 1)>> \o SplitCommasFrom(s, e, e)
         ELSE SplitCommasFrom(s, p + 1, start)

SplitCommas(s) == SplitCommasFrom(s, 1, 1)

(***************************************************************************)
(* smart_text_split.  The loop state is the pair (chunks, current_chunk).  *)
(***************************************************************************)
\* for i in range(0, len(part_words), max_words):
\*     chunks.append(' '.join(part_words[i:i + max_words]))
RECURSIVE WordChunks(_, _)
WordChunks(part_words, mw) ==
    IF part_words = <<>> THEN <<>>
    ELSE <<JoinWords(SubSeq(part_words, 1, Min(mw, Len(part_words))))>>
         \o WordChunks(SubSeq(part_words, mw + 1, Len(part_words)), mw)

\* PackFragment with the fit test off by one ("> max_words + 1").
PackFragmentOffByOne(st, frag, mw) ==
    IF st.current_chunk # <<>>
       /\ Len(SplitWords(st.current_chunk)) + Len(SplitWords(frag)) > mw + 1
    THEN [chunks |-> Append(st.chunks, Strip(st.current_chunk)),
          current_chunk |-> frag]
    ELSE [chunks |-> st.chunks,
          current_chunk |-> Strip(st.current_chunk \o <<" ">> \o frag)]

\* The greedy packing both branches share: flush current_chunk when the
\* fragment does not fit, else append the fragment to it.
PackFragment(st, frag, mw) ==
    IF st.current_chunk # <<>>
       /\ Len(SplitWords(st.current_chunk)) + Len(SplitWords(frag)) > mw
    THEN [chunks |-> Append(st.chunks, Strip(st.current_chunk)),
          current_chunk |-> frag]
    ELSE [chunks |-> st.chunks,
          current_chunk |-> Strip(st.current_chunk \o <<" ">> \o frag)]

\* The body of "for part in parts".
SplitPart(st, part, mw) ==
    IF Len(SplitWords(part)) > mw
    THEN [chunks |-> st.chunks \o WordChunks(SplitWords(part), mw),
          current_chunk |-> st.current_chunk]
    ELSE PackFragment(st, part, mw)

RECURSIVE SplitParts(_, _, _)
SplitParts(st, parts, mw) ==
    IF parts = <<>> THEN st
    ELSE SplitParts(SplitPart(st, Head(parts), mw), Tail(parts), mw)

\* The body of "for sentence in sentences".
SplitSentence(st, sentence, mw) ==
    IF Strip(sentence) = <<>> THEN st
    ELSE IF Len(SplitWords(sentence)) > mw
    THEN SplitParts(st, SplitCommas(sentence), mw)
    ELSE PackFragment(st, sentence, mw)

RECURSIVE SplitAllSentences(_, _, _)
SplitAllSentences(st, sentences, mw) ==
    IF sentences = <<>> THEN st
    ELSE SplitAllSentences(SplitSentence(st, Head(sentences), mw), Tail(sentences), mw)

\* [chunk for chunk in chunks if chunk.strip()]
RECURSIVE NonBlank(_)
NonBlank(cs) ==
    IF cs = <<>> THEN <<>>
    ELSE IF Strip(Head(cs)) # <<>> THEN <<Head(cs)>> \o NonBlank(Tail(cs))
    ELSE NonBlank(Tail(cs))

\* smart_text_split without the final flush of current_chunk (lines
\* 191-192).
smart_text_split_unflushed(t, mw) ==
    LET st == SplitAllSentences([chunks |-> <<>>, current_chunk |-> <<>>],
                                SplitSentences(Strip(t)), mw)
    IN NonBlank(st.chunks)

smart_text_split(t, mw) ==
    LET st == SplitAllSentences([chunks |-> <<>>, current_chunk |-> <<>>],
                                SplitSentences(Strip(t)), mw)
        chunks == IF Strip(st.current_chunk) # <<>>
                  THEN Append(st.chunks, Strip(st.current_chunk))
                  ELSE st.chunks
    IN NonBlank(chunks)

\* The lru_cache memo returns what smart_text_split returns.
get_optimized_chunks(t, mw) == smart_text_split(t, mw)

(***************************************************************************)
(* The segmenter's specification: a text is typed character by character   *)
(* and then segmented under some bound, as both handlers do after their     *)
(* emptiness check.                                                         *)
(***************************************************************************)
Init ==
    /\ text = <<>>
    /\ max_words = 0
    /\ text_chunks = <<>>
    /\ seg_pc = "input"
    /\ audio_cache = <<>>
    /\ now = 0
    /\ cache_evicted = 0
    /\ pipeline_cache = <<>>
    /\ cache_lock = "free"
    /\ thr_pc = [t \in Threads |-> "idle"]
    /\ thr_lang = [t \in Threads |-> ""]
    /\ thr_evicted = [t \in Threads |-> FALSE]
    /\ optimal_workers = 0
    /\ mode = "none"
    /\ handler_pc = "boot"
    /\ n_units = 0
    /\ sem_limit = 0
    /\ sem = 0
    /\ unit_state = <<>>
    /\ synth_outcome = <<>>
    /\ unit_audio = <<>>
    /\ completed = <<>>
    /\ prod_pc = "none"
    /\ prod_i = 0
    /\ cancel_requested = FALSE
    /\ queue = <<>>
    /\ stream_end = "none"
    /\ emitted = <<>>
    /\ disconnected = FALSE
    /\ resp_status = "none"
    /\ stats = [total_requests |-> 0, successful_requests |-> 0, failed_requests |-> 0,
                stream_requests |-> 0, successful_streams |-> 0, failed_streams |-> 0]
    /\ lookup_a = "none"
    /\ lookup_b = "none"
    /\ key_a = "none"
    /\ key_b = "none"
    /\ audio_lock = "free"
    /\ op_pc = [a \in CacheThreads |-> "idle"]
    /\ op_key = [a \in CacheThreads |-> ""]
    /\ expired_keys = {}
    /\ sent = <<>>
    /\ raw = <<>>
    /\ parsed = <<>>
    /\ frame_pc = "open"
    /\ submitted = <<>>
    /\ todo = [t \in Threads |-> <<>>]
    /\ held = [t \in Threads |-> <<>>]
    /\ call_key = ""
    /\ call_result = "none"
    /\ cache_before = <<>>
    /\ call_pc = [t \in Callers |-> "idle"]
    /\ call_lang = [t \in Callers |-> ""]
    /\ call_handle = [t \in Callers |-> ""]
    /\ call_missed = [t \in Callers |-> FALSE]
    /\ overlapped = [t \in Callers |-> {}]
    /\ built_by = [l \in LangCodes |-> ""]

TypeChar ==
    /\ seg_pc = "input"
    /\ Len(text) < MaxTextLen
    /\ \E c \in Alphabet : text' = Append(text, c)
    /\ UNCHANGED <<max_words, text_chunks, seg_pc, cache_vars, pipe_vars, req_vars, key_vars, lock_vars, frame_vars, disp_vars, order_vars, synth_vars, acq_vars>>

\* _stats[counter] += 1
Bump(counter) == [stats EXCEPT ![counter] = @ + 1]

\* RejectEmpty placed after the statistics update of the handler.
RejectEmptyCounted ==
    /\ seg_pc = "input"
    /\ Strip(text) = <<>>
    /\ seg_pc' = "rejected"
    /\ \E m \in {"batch", "stream"} : mode' = m
    /\ resp_status' = "400"
    /\ stats' = Bump("total_requests")
    /\ UNCHANGED <<text, max_words, text_chunks, optimal_workers, handler_pc, n_units,
                   sem_limit, sem, unit_vars, prod_vars, queue, stream_end, emitted,
                   disconnected, cache_vars, pipe_vars, key_vars, lock_vars, frame_vars, disp_vars, order_vars, synth_vars, acq_vars>>

\* "if not req.text.strip(): raise HTTPException(400)", the first statement
\* of tts (mode batch) and of tts_stream (mode stream).
RejectEmpty ==
    /\ seg_pc = "input"
    /\ Strip(text) = <<>>
    /\ seg_pc' = "rejected"
    /\ \E m \in {"batch", "stream"} : mode' = m
    /\ resp_status' = "400"
    /\ UNCHANGED <<text, max_words, text_chunks, optimal_workers, handler_pc, n_units,
                   sem_limit, sem, unit_vars, prod_vars, queue, stream_end, emitted,
                   disconnected, stats, cache_vars, pipe_vars, key_vars, lock_vars, frame_vars, disp_vars, order_vars, synth_vars, acq_vars>>

Segment ==
    /\ seg_pc = "input"
    /\ Strip(text) # <<>>
    /\ \E mw \in 1..MaxWordsBound :
          /\ max_words' = mw
          /\ text_chunks' = get_optimized_chunks(text, mw)
    /\ seg_pc' = "split"
    /\ UNCHANGED <<text, cache_vars, pipe_vars, req_vars, key_vars, lock_vars, frame_vars, disp_vars, order_vars, synth_vars, acq_vars>>

SegNext == TypeChar \/ RejectEmpty \/ Segment

(***************************************************************************)
(* What the two handlers submit to generate_audio_sync for the units of a  *)
(* segmented text.  seg_pc becomes "batch" or "stream".                    *)
(***************************************************************************)
\* tts, lines 326-349: one unit submits req.text, several submit each chunk.
TtsArguments(t, chunks) == IF Len(chunks) = 1 THEN <<t>> ELSE chunks

\* chunk_producer, lines 424-431: each chunk_text of text_chunks.
StreamArguments(t, chunks) == chunks

TtsSubmit ==
    /\ seg_pc = "split"
    /\ submitted' = TtsArguments(text, text_chunks)
    /\ seg_pc' = "batch"
    /\ UNCHANGED <<text, max_words, text_chunks, cache_vars, pipe_vars, req_vars,
                   key_vars, lock_vars, frame_vars, order_vars, synth_vars, acq_vars>>

StreamSubmit ==
    /\ seg_pc = "split"
    /\ submitted' = StreamArguments(text, text_chunks)
    /\ seg_pc' = "stream"
    /\ UNCHANGED <<text, max_words, text_chunks, cache_vars, pipe_vars, req_vars,
                   key_vars, lock_vars, frame_vars, order_vars, synth_vars, acq_vars>>

DispatchNext == SegNext \/ TtsSubmit \/ StreamSubmit

(***************************************************************************)
(* The key of the Audio Result Cache, and two lookups that compute it.     *)
(***************************************************************************)
Digit(d) == CASE d = 0 -> "0" [] d = 1 -> "1" [] d = 2 -> "2" [] d = 3 -> "3"
              [] d = 4 -> "4" [] d = 5 -> "5" [] d = 6 -> "6" [] d = 7 -> "7"
              [] d = 8 -> "8" [] d = 9 -> "9"

\* What an f-string makes of a float with one decimal, given in tenths:
\* 10 is 1.0 and prints "1.0".
FormatSpeed(tenths) == <<Digit(tenths \div 10), ".", Digit(tenths % 10)>>

\* content = f"{text}:{voice}:{speed}:{lang}"
KeyContent(t, voice, speed, lang) ==
    t \o <<":">> \o voice \o <<":">> \o FormatSpeed(speed) \o <<":">> \o lang

\* hashlib.md5(...).hexdigest(): a function of the content, taken to be
\* free of collisions.
Md5(content) == <<"md5", content>>

get_audio_cache_key(t, voice, speed, lang) == Md5(KeyContent(t, voice, speed, lang))

KeyLookupA ==
    /\ \E t \in KeyTexts, voice \in KeyVoices, speed \in KeySpeeds, lang \in KeyLangs :
          /\ lookup_a' = <<t, voice, speed, lang>>
          /\ key_a' = get_audio_cache_key(t, voice, speed, lang)
    /\ UNCHANGED <<lookup_b, key_b, seg_vars, cache_vars, pipe_vars, req_vars, lock_vars, frame_vars, disp_vars, order_vars, synth_vars, acq_vars>>

KeyLookupB ==
    /\ \E t \in KeyTexts, voice \in KeyVoices, speed \in KeySpeeds, lang \in KeyLangs :
          /\ lookup_b' = <<t, voice, speed, lang>>
          /\ key_b' = get_audio_cache_key(t, voice, speed, lang)
    /\ UNCHANGED <<lookup_a, key_a, seg_vars, cache_vars, pipe_vars, req_vars, lock_vars, frame_vars, disp_vars, order_vars, synth_vars, acq_vars>>

KeyNext == KeyLookupA \/ KeyLookupB

(***************************************************************************)
(* The framing of a streaming response (part, lines 389-398) and the       *)
(* client's parser (parse_multipart_stream of scripts/test_api.py).  Bytes  *)
(* are tokens; a header name, a content type and the decimal length (one    *)
(* digit at these sizes) are each one token, since no payload byte can be  *)
(* part of them.                                                           *)
(***************************************************************************)
\* BOUNDARY = "--frame"
BOUNDARY == <<"-", "-", "frame">>
CRLF == <<"CR", "LF">>

\* part(content_type, data)
part(content_type, data) ==
    BOUNDARY \o CRLF
    \o <<"Content-Type", ":", "SP", content_type>> \o CRLF
    \o <<"Content-Length", ":", "SP", Digit(Len(data))>> \o CRLF \o CRLF
    \o data \o CRLF

\* f"{BOUNDARY}--\r\n"
Terminator == BOUNDARY \o <<"-", "-">> \o CRLF

IsPrefix(p, s) == Len(p) <= Len(s) /\ SubSeq(s, 1, Len(p)) = p

Drop(s, n) == SubSeq(s, n + 1, Len(s))

\* bytes.split(sep)
RECURSIVE BytesSplitFrom(_, _, _)
BytesSplitFrom(s, sep, cur) ==
    IF s = <<>> THEN <<cur>>
    ELSE IF IsPrefix(sep, s)
         THEN <<cur>> \o BytesSplitFrom(Drop(s, Len(sep)), sep, <<>>)
         ELSE BytesSplitFrom(Tail(s), sep, Append(cur, Head(s)))

BytesSplit(s, sep) == BytesSplitFrom(s, sep, <<>>)

\* bytes.split(sep, 1): what stands before the first sep, and what after.
RECURSIVE SplitOnceFrom(_, _, _)
SplitOnceFrom(s, sep, cur) ==
    IF s = <<>> THEN [found |-> FALSE, before |-> cur, after |-> <<>>]
    ELSE IF IsPrefix(sep, s)
         THEN [found |-> TRUE, before |-> cur, after |-> Drop(s, Len(sep))]
         ELSE SplitOnceFrom(Tail(s), sep, Append(cur, Head(s)))

SplitOnce(s, sep) == SplitOnceFrom(s, sep, <<>>)

\* bytes.strip(chars), bytes.rstrip(chars)
RECURSIVE BytesLStrip(_, _)
BytesLStrip(s, chars) ==
    IF s # <<>> /\ Head(s) \in chars THEN BytesLStrip(Tail(s), chars) ELSE s

RECURSIVE BytesRStrip(_, _)
BytesRStrip(s, chars) ==
    IF s # <<>> /\ s[Len(s)] \in chars
    THEN BytesRStrip(SubSeq(s, 1, Len(s) - 1), chars)
    ELSE s

\* The ASCII whitespace bytes.strip() removes, of the bytes at hand.
Whitespace == {"SP", "CR", "LF"}

BytesStrip(s) == BytesRStrip(BytesLStrip(s, Whitespace), Whitespace)

\* The value of the header named name among the lines of headers_raw ("?"
\* if there is none): each line is split at its first ":" and the value
\* stripped.
HeaderValue(headers_raw, name) ==
    LET lines == BytesSplit(headers_raw, CRLF)
        hits == {i \in 1..Len(lines) :
                    /\ SplitOnce(lines[i], <<":">>).found
                    /\ BytesStrip(SplitOnce(lines[i], <<":">>).before) = <<name>>}
    IN IF hits = {} THEN <<"?">>
       ELSE LET last == CHOOSE i \in hits : \A j \in hits : j <= i
            IN BytesStrip(SplitOnce(lines[last], <<":">>).after)

\* What the loop body of parse_multipart_stream appends for one block:
\* nothing or one part.
ParseBlock(block0) ==
    LET block == BytesStrip(block0) IN
    IF block = <<>> \/ block = <<"-", "-">> THEN <<>>
    ELSE LET cut == SplitOnce(block, CRLF \o CRLF) IN
         IF ~cut.found THEN <<>>
         ELSE <<[ctype |-> HeaderValue(cut.before, "Content-Type"),
                 length |-> HeaderValue(cut.before, "Content-Length"),
                 body |-> BytesRStrip(cut.after, {"CR", "LF"})]>>

RECURSIVE ParseBlocks(_)
ParseBlocks(blocks) ==
    IF blocks = <<>> THEN <<>>
    ELSE ParseBlock(Head(blocks)) \o ParseBlocks(Tail(blocks))

\* parse_multipart_stream(raw, boundary): the marker is "--" + boundary,
\* where boundary is BOUNDARY without its two dashes (line 514).
parse_multipart_stream(bytes) == ParseBlocks(BytesSplit(bytes, BOUNDARY))

\* The payloads of at most MaxPayloadLen bytes; wav_stream yields no empty
\* one.
RECURSIVE PayloadsOfLen(_)
PayloadsOfLen(n) ==
    IF n = 0 THEN {<<>>}
    ELSE {Append(d, b) : d \in PayloadsOfLen(n - 1), b \in PayloadBytes}

Payloads == UNION {PayloadsOfLen(n) : n \in 1..MaxPayloadLen}

\* The generator yields a part.
YieldPart ==
    /\ frame_pc = "open"
    /\ Len(sent) < MaxFragments
    /\ \E ct \in ContentTypes, data \in Payloads :
          /\ sent' = Append(sent, [ctype |-> ct, data |-> data])
          /\ raw' = raw \o part(ct, data)
    /\ UNCHANGED <<parsed, frame_pc, seg_vars, cache_vars, pipe_vars, req_vars,
                   key_vars, lock_vars,
                   disp_vars, order_vars, synth_vars, acq_vars>>

\* The generator yields the terminator.
YieldTerminator ==
    /\ frame_pc = "open"
    /\ raw' = raw \o Terminator
    /\ frame_pc' = "closed"
    /\ UNCHANGED <<sent, parsed, seg_vars, cache_vars, pipe_vars, req_vars,
                   key_vars, lock_vars,
                   disp_vars, order_vars, synth_vars, acq_vars>>

\* The client has read the whole body and parses it.
ClientParses ==
    /\ frame_pc = "closed"
    /\ parsed' = parse_multipart_stream(raw)
    /\ frame_pc' = "parsed"
    /\ UNCHANGED <<sent, raw, seg_vars, cache_vars, pipe_vars, req_vars,
                   key_vars, lock_vars,
                   disp_vars, order_vars, synth_vars, acq_vars>>

FrameNext == YieldPart \/ YieldTerminator \/ ClientParses

(***************************************************************************)
(* The Audio Result Cache.  _audio_cache is a dict: its entries keep the    *)
(* order of their first insertion, an assignment to a key it holds keeps    *)
(* the entry's place, and list.sort is stable.  Every operation runs under  *)
(* _audio_cache_lock from its first to its last access, so it is one step.  *)
(***************************************************************************)
\* The audio the engine synthesizes for the unit of key k.
Synth(k) == k

CachedKeys(c) == {c[i].key : i \in 1..Len(c)}

\* The entry of key k in c (k is a key of c).
EntryOf(c, k) == c[CHOOSE i \in 1..Len(c) : c[i].key = k]

\* del c[k] for every k of ks
RECURSIVE DelKeys(_, _)
DelKeys(c, ks) ==
    IF c = <<>> THEN <<>>
    ELSE IF Head(c).key \in ks THEN DelKeys(Tail(c), ks)
    ELSE <<Head(c)>> \o DelKeys(Tail(c), ks)

\* SetItem leaving an entry the dict already holds as it is.
SetItemKeepsOld(c, k, a, t) ==
    IF k \in CachedKeys(c) THEN c
    ELSE Append(c, [key |-> k, audio |-> a, ts |-> t])

\* c[k] = (a, t)
SetItem(c, k, a, t) ==
    IF k \in CachedKeys(c)
    THEN [i \in 1..Len(c) |->
             IF c[i].key = k THEN [key |-> k, audio |-> a, ts |-> t] ELSE c[i]]
    ELSE Append(c, [key |-> k, audio |-> a, ts |-> t])

\* items.sort(key=lambda x: x[1][1]): a stable sort by timestamp.
RECURSIVE InsertByTs(_, _)
InsertByTs(s, e) ==
    IF s = <<>> THEN <<e>>
    ELSE IF Head(s).ts <= e.ts THEN <<Head(s)>> \o InsertByTs(Tail(s), e)
    ELSE <<e>> \o s

RECURSIVE SortByTs(_)
SortByTs(c) ==
    IF c = <<>> THEN <<>>
    ELSE InsertByTs(SortByTs(SubSeq(c, 1, Len(c) - 1)), c[Len(c)])

\* OldestKeys without the sort: the first keys in the order of the dict.
OldestKeysUnsorted(c) ==
    LET n == Min(max_cache_size \div 5, Len(c))
    IN {c[i].key : i \in 1..n}

\* The keys of items[:_max_cache_size // 5]
OldestKeys(c) ==
    LET items == SortByTs(c)
        n == Min(max_cache_size \div 5, Len(items))
    IN {items[i].key : i \in 1..n}

\* EvictedKeys with the capacity test written ">" for ">=".
EvictedKeysLate(c) ==
    IF Len(c) > max_cache_size THEN OldestKeys(c) ELSE {}

\* The keys cache_audio deletes before it inserts.
EvictedKeys(c) ==
    IF Len(c) >= max_cache_size THEN OldestKeys(c) ELSE {}

cache_audio(c, k, a, t) == SetItem(DelKeys(c, EvictedKeys(c)), k, a, t)

\* get_cached_audio_within with the age test written "<=" for "<".
get_cached_audio_upto(c, k, t, ttl) ==
    IF k \in CachedKeys(c)
    THEN LET e == EntryOf(c, k) IN
         IF t - e.ts <= ttl
         THEN [cache |-> SetItem(c, k, e.audio, t), result |-> e.audio]
         ELSE [cache |-> DelKeys(c, {k}), result |-> "None"]
    ELSE [cache |-> c, result |-> "None"]

\* get_cached_audio_within with a hit that leaves the timestamp as it is.
get_cached_audio_unrefreshed(c, k, t, ttl) ==
    IF k \in CachedKeys(c)
    THEN LET e == EntryOf(c, k) IN
         IF t - e.ts < ttl
         THEN [cache |-> c, result |-> e.audio]
         ELSE [cache |-> DelKeys(c, {k}), result |-> "None"]
    ELSE [cache |-> c, result |-> "None"]

\* get_cached_audio where _cache_ttl is ttl: the cache it leaves and what it
\* returns.
get_cached_audio_within(c, k, t, ttl) ==
    IF k \in CachedKeys(c)
    THEN LET e == EntryOf(c, k) IN
         IF t - e.ts < ttl
         THEN [cache |-> SetItem(c, k, e.audio, t), result |-> e.audio]
         ELSE [cache |-> DelKeys(c, {k}), result |-> "None"]
    ELSE [cache |-> c, result |-> "None"]

get_cached_audio(c, k, t) == get_cached_audio_within(c, k, t, cache_ttl)

\* cleanup_task's expired_keys where _cache_ttl is ttl
ExpiredKeysWithin(c, t, ttl) ==
    {c[i].key : i \in {j \in 1..Len(c) : t - c[j].ts > ttl}}

ExpiredKeys(c, t) == ExpiredKeysWithin(c, t, cache_ttl)

\* What one wake-up of cleanup_task leaves of the cache, having read
\* total_requests from the statistics.
cleanup_pass(c, t, total_requests) ==
    IF total_requests > 0 /\ total_requests % 25 = 0
    THEN DelKeys(c, ExpiredKeys(c, t))
    ELSE c

\* Time passes.
Tick ==
    /\ now < MaxTime
    /\ now' = now + 1
    /\ cache_evicted' = 0
    /\ UNCHANGED <<audio_cache, seg_vars, pipe_vars, req_vars, key_vars, lock_vars, frame_vars, disp_vars, order_vars, synth_vars, acq_vars>>

CacheGet ==
    /\ \E k \in CacheKeys :
          audio_cache' = get_cached_audio(audio_cache, k, now).cache
    /\ cache_evicted' = 0
    /\ UNCHANGED <<now, seg_vars, pipe_vars, req_vars, key_vars, lock_vars, frame_vars, disp_vars, order_vars, synth_vars, acq_vars>>

CachePut ==
    /\ \E k \in CacheKeys :
          audio_cache' = cache_audio(audio_cache, k, Synth(k), now)
    /\ cache_evicted' = Cardinality(EvictedKeys(audio_cache))
    /\ UNCHANGED <<now, seg_vars, pipe_vars, req_vars, key_vars, lock_vars, frame_vars, disp_vars, order_vars, synth_vars, acq_vars>>

CacheCleanup ==
    /\ \E tr \in TotalRequestsSeen :
          audio_cache' = cleanup_pass(audio_cache, now, tr)
    /\ cache_evicted' = 0
    /\ UNCHANGED <<now, seg_vars, pipe_vars, req_vars, key_vars, lock_vars, frame_vars, disp_vars, order_vars, synth_vars, acq_vars>>

\* clear_cache: _audio_cache.clear()
CacheClear ==
    /\ audio_cache' = <<>>
    /\ cache_evicted' = 0
    /\ UNCHANGED <<now, seg_vars, pipe_vars, req_vars, key_vars, lock_vars, frame_vars, disp_vars, order_vars, synth_vars, acq_vars>>

CacheNext == Tick \/ CacheGet \/ CachePut \/ CacheCleanup \/ CacheClear

(***************************************************************************)
(* The same operations thread by thread.  Each is a "with                  *)
(* _audio_cache_lock:" block: the thread enters when the lock is free,      *)
(* reads and writes _audio_cache, and leaves the block releasing the lock.  *)
(* The clock may move while a thread is inside.                             *)
(***************************************************************************)
Enter(a, pc, k) ==
    /\ op_pc[a] = "idle"
    /\ audio_lock = "free"
    /\ audio_lock' = a
    /\ op_pc' = [op_pc EXCEPT ![a] = pc]
    /\ op_key' = [op_key EXCEPT ![a] = k]

Leave(a) ==
    /\ audio_lock' = "free"
    /\ op_pc' = [op_pc EXCEPT ![a] = "idle"]
    /\ op_key' = [op_key EXCEPT ![a] = ""]

\* get_cached_audio, line 63: the lock is taken.
GetEnter(a) ==
    /\ a \in CacheWorkers
    /\ \E k \in WorkerKeys : Enter(a, "get", k)
    /\ UNCHANGED <<expired_keys, seg_vars, cache_vars, pipe_vars, req_vars, key_vars, frame_vars, disp_vars, order_vars, synth_vars, acq_vars>>

\* Lines 64-72: the refresh or the deletion, and the block is left.
GetLeave(a) ==
    /\ op_pc[a] = "get"
    /\ audio_cache' = get_cached_audio(audio_cache, op_key[a], now).cache
    /\ Leave(a)
    /\ UNCHANGED <<now, cache_evicted, expired_keys, seg_vars, pipe_vars, req_vars,
                   key_vars, frame_vars, disp_vars, order_vars, synth_vars, acq_vars>>

\* cache_audio, lines 78-85: the lock is taken and the eviction pass run.
PutEnter(a) ==
    /\ a \in CacheWorkers
    /\ \E k \in WorkerKeys : Enter(a, "put", k)
    /\ audio_cache' = DelKeys(audio_cache, EvictedKeys(audio_cache))
    /\ UNCHANGED <<now, cache_evicted, expired_keys, seg_vars, pipe_vars, req_vars,
                   key_vars, frame_vars, disp_vars, order_vars, synth_vars, acq_vars>>

\* Line 87: the assignment, and the block is left.
PutLeave(a) ==
    /\ op_pc[a] = "put"
    /\ audio_cache' = SetItem(audio_cache, op_key[a], Synth(op_key[a]), now)
    /\ Leave(a)
    /\ UNCHANGED <<now, cache_evicted, expired_keys, seg_vars, pipe_vars, req_vars,
                   key_vars, frame_vars, disp_vars, order_vars, synth_vars, acq_vars>>

\* cleanup_task, lines 533-538: the lock is taken and expired_keys computed.
CleanupEnter ==
    /\ Enter("cleanup", "scanned", "")
    /\ expired_keys' = ExpiredKeys(audio_cache, now)
    /\ UNCHANGED <<seg_vars, cache_vars, pipe_vars, req_vars, key_vars, frame_vars, disp_vars, order_vars, synth_vars, acq_vars>>

\* Lines 539-540: the expired keys are deleted, and the block is left.
CleanupLeave ==
    /\ op_pc["cleanup"] = "scanned"
    /\ audio_cache' = DelKeys(audio_cache, expired_keys)
    /\ expired_keys' = {}
    /\ Leave("cleanup")
    /\ UNCHANGED <<now, cache_evicted, seg_vars, pipe_vars, req_vars, key_vars, frame_vars, disp_vars, order_vars, synth_vars, acq_vars>>

\* ClearEnter without the "with _audio_cache_lock:".
ClearEnterUnlocked ==
    /\ op_pc["admin"] = "idle"
    /\ op_pc' = [op_pc EXCEPT !["admin"] = "clearing"]
    /\ UNCHANGED <<audio_lock, op_key, expired_keys, seg_vars, cache_vars, pipe_vars,
                   req_vars, key_vars, frame_vars, disp_vars, order_vars, synth_vars, acq_vars>>

\* clear_cache, lines 578-579: the lock is taken and the size read.
ClearEnter ==
    /\ Enter("admin", "clearing", "")
    /\ UNCHANGED <<expired_keys, seg_vars, cache_vars, pipe_vars, req_vars, key_vars, frame_vars, disp_vars, order_vars, synth_vars, acq_vars>>

\* Line 580: _audio_cache.clear(), and the block is left.
ClearLeave ==
    /\ op_pc["admin"] = "clearing"
    /\ audio_cache' = <<>>
    /\ Leave("admin")
    /\ UNCHANGED <<now, cache_evicted, expired_keys, seg_vars, pipe_vars, req_vars,
                   key_vars, frame_vars, disp_vars, order_vars, synth_vars, acq_vars>>

LockNext ==
    \/ Tick
    \/ \E a \in CacheWorkers : GetEnter(a) \/ GetLeave(a) \/ PutEnter(a) \/ PutLeave(a)
    \/ CleanupEnter
    \/ CleanupLeave
    \/ ClearEnter
    \/ ClearLeave

(***************************************************************************)
(* The Engine Handle Cache.  get_pipeline runs under _cache_lock; the       *)
(* model splits a miss in two steps, the insertion and the eviction, since  *)
(* /health and /stats read len(_pipeline_cache) without the lock.  The      *)
(* caller then uses the handle with no lock held (generate_audio_sync,      *)
(* lines 209-212).                                                          *)
(***************************************************************************)
\* "lang_code not in _pipeline_cache"
PipelineMiss(c, lang) == \A i \in 1..Len(c) : c[i] # lang

\* PipelineOverflow with the bound off by one.
PipelineOverflowLate(c) == Len(c) > MaxPipelines + 1

\* "if len(_pipeline_cache) > 5"
PipelineOverflow(c) == Len(c) > MaxPipelines

\* EvictOldestPipeline deleting the newest handle, the one just created.
EvictNewestPipeline(c) ==
    IF PipelineOverflow(c) THEN SubSeq(c, 1, Len(c) - 1) ELSE c

\* "del _pipeline_cache[next(iter(_pipeline_cache))]" when the cache overflows
EvictOldestPipeline(c) == IF PipelineOverflow(c) THEN Tail(c) ELSE c

\* The language code that step deletes, "" if none.
OldestPipeline(c) == IF PipelineOverflow(c) THEN Head(c) ELSE ""

\* A hit: the handle is returned, the cache untouched.
GetPipelineHit(t) ==
    /\ thr_pc[t] = "idle"
    /\ cache_lock = "free"
    /\ \E lang \in LangsOf(t) :
          /\ ~PipelineMiss(pipeline_cache, lang)
          /\ thr_lang' = [thr_lang EXCEPT ![t] = lang]
    /\ thr_pc' = [thr_pc EXCEPT ![t] = "using"]
    /\ UNCHANGED <<pipeline_cache, cache_lock, thr_evicted, seg_vars, cache_vars, req_vars, key_vars, lock_vars, frame_vars, disp_vars, order_vars, synth_vars, acq_vars>>

\* A miss, lines 95-97: KPipeline(lang_code) is constructed and inserted.
GetPipelineInsert(t) ==
    /\ thr_pc[t] = "idle"
    /\ cache_lock = "free"
    /\ \E lang \in LangsOf(t) :
          /\ PipelineMiss(pipeline_cache, lang)
          /\ pipeline_cache' = Append(pipeline_cache, lang)
          /\ thr_lang' = [thr_lang EXCEPT ![t] = lang]
    /\ cache_lock' = t
    /\ thr_pc' = [thr_pc EXCEPT ![t] = "inserted"]
    /\ UNCHANGED <<thr_evicted, seg_vars, cache_vars, req_vars, key_vars, lock_vars, frame_vars, disp_vars, order_vars, synth_vars, acq_vars>>

\* GetPipelineFails leaving _cache_lock held.
GetPipelineFailsLocked(t) ==
    /\ thr_pc[t] = "idle"
    /\ cache_lock = "free"
    /\ \E lang \in LangsOf(t) :
          /\ PipelineMiss(pipeline_cache, lang)
          /\ thr_lang' = [thr_lang EXCEPT ![t] = lang]
    /\ thr_pc' = [thr_pc EXCEPT ![t] = "failed"]
    /\ cache_lock' = t
    /\ UNCHANGED <<pipeline_cache, thr_evicted, seg_vars, cache_vars, req_vars, key_vars,
                   lock_vars, frame_vars, disp_vars, order_vars, synth_vars, acq_vars>>

\* A miss whose KPipeline(lang_code) raises: the with statement releases
\* the lock and the exception leaves get_pipeline.
GetPipelineFails(t) ==
    /\ thr_pc[t] = "idle"
    /\ cache_lock = "free"
    /\ \E lang \in LangsOf(t) :
          /\ PipelineMiss(pipeline_cache, lang)
          /\ thr_lang' = [thr_lang EXCEPT ![t] = lang]
    /\ thr_pc' = [thr_pc EXCEPT ![t] = "failed"]
    /\ UNCHANGED <<pipeline_cache, cache_lock, thr_evicted, seg_vars, cache_vars, req_vars, key_vars, lock_vars, frame_vars, disp_vars, order_vars, synth_vars, acq_vars>>

\* Lines 100-111: the eviction, then the lock is released and the handle
\* returned.
GetPipelineEvict(t) ==
    /\ thr_pc[t] = "inserted"
    /\ cache_lock = t
    /\ pipeline_cache' = EvictOldestPipeline(pipeline_cache)
    /\ thr_evicted' = [u \in Threads |->
           thr_evicted[u]
           \/ (thr_pc[u] = "using" /\ thr_lang[u] = OldestPipeline(pipeline_cache))]
    /\ cache_lock' = "free"
    /\ thr_pc' = [thr_pc EXCEPT ![t] = "using"]
    /\ UNCHANGED <<thr_lang, seg_vars, cache_vars, req_vars, key_vars, lock_vars, frame_vars, disp_vars, order_vars, synth_vars, acq_vars>>

\* The caller is done with the handle (the synthesis call has returned), or
\* has handled the exception.
ThreadDone(t) ==
    /\ thr_pc[t] \in {"using", "failed"}
    /\ thr_pc' = [thr_pc EXCEPT ![t] = "idle"]
    /\ thr_lang' = [thr_lang EXCEPT ![t] = ""]
    /\ thr_evicted' = [thr_evicted EXCEPT ![t] = FALSE]
    /\ UNCHANGED <<pipeline_cache, cache_lock, seg_vars, cache_vars, req_vars, key_vars, lock_vars, frame_vars, disp_vars, order_vars, synth_vars, acq_vars>>

PipeNext ==
    \E t \in Threads :
        \/ GetPipelineHit(t)
        \/ GetPipelineInsert(t)
        \/ GetPipelineFails(t)
        \/ GetPipelineEvict(t)
        \/ ThreadDone(t)

(***************************************************************************)
(* generate_audio_sync on the Audio Result Cache: one call is one step     *)
(* (lookup, engine, store), recorded with the cache it found.              *)
(***************************************************************************)
\* generate_audio_sync storing the silence it substitutes.
generate_audio_sync_storing_silence(c, k, t, outcome) ==
    LET got == get_cached_audio(c, k, t) IN
    IF got.result # "None" THEN [cache |-> got.cache, result |-> got.result]
    ELSE IF outcome = "ok"
    THEN [cache |-> cache_audio(got.cache, k, Synth(k), t), result |-> Synth(k)]
    ELSE [cache |-> cache_audio(got.cache, k, "silence", t), result |-> "silence"]

\* Lines 199-231 for the key k of the unit: a hit returns the cached audio;
\* on a miss the engine's audio is stored and returned (outcome "ok"), and
\* silence is returned when the engine yields nothing, raises, or cannot be
\* constructed.
generate_audio_sync_on_cache(c, k, t, outcome) ==
    LET got == get_cached_audio(c, k, t) IN
    IF got.result # "None" THEN [cache |-> got.cache, result |-> got.result]
    ELSE IF outcome = "ok"
    THEN [cache |-> cache_audio(got.cache, k, Synth(k), t), result |-> Synth(k)]
    ELSE [cache |-> got.cache, result |-> "silence"]

SynthCall ==
    /\ \E k \in SynthKeys, outcome \in SynthOutcomes :
          LET r == generate_audio_sync_on_cache(audio_cache, k, now, outcome) IN
             /\ audio_cache' = r.cache
             /\ call_key' = k
             /\ call_result' = r.result
    /\ cache_before' = audio_cache
    /\ cache_evicted' = 0
    /\ UNCHANGED <<now, seg_vars, pipe_vars, req_vars, key_vars, lock_vars, frame_vars,
                   disp_vars, order_vars, acq_vars>>

SynthNext == Tick \/ SynthCall

(***************************************************************************)
(* get_pipeline call by call.  A caller waits for _cache_lock; the block   *)
(* under the lock (lines 94-111) is one step, as no caller sees inside it; *)
(* the handle is then used until the synthesis call ends.                  *)
(***************************************************************************)
InCall == {u \in Callers : call_pc[u] = "waiting"}

\* get_pipeline(lang) is called and reaches "with _cache_lock:".
CallGetPipeline(t) ==
    /\ call_pc[t] = "idle"
    /\ \E lang \in LangsCalledBy(t) :
          /\ call_lang' = [call_lang EXCEPT ![t] = lang]
          /\ call_missed' = [call_missed EXCEPT ![t] = PipelineMiss(pipeline_cache, lang)]
    /\ call_pc' = [call_pc EXCEPT ![t] = "waiting"]
    /\ overlapped' = [u \in Callers |->
           IF u = t THEN InCall
           ELSE IF u \in InCall THEN overlapped[u] \cup {t}
           ELSE overlapped[u]]
    /\ UNCHANGED <<call_handle, built_by, seg_vars, cache_vars, pipe_vars, req_vars,
                   key_vars, lock_vars, frame_vars, disp_vars, order_vars, synth_vars>>

\* The lock is taken and the locale is cached: line 111 returns its handle.
ReturnCached(t) ==
    /\ call_pc[t] = "waiting"
    /\ ~PipelineMiss(pipeline_cache, call_lang[t])
    /\ call_handle' = [call_handle EXCEPT ![t] = built_by[call_lang[t]]]
    /\ call_pc' = [call_pc EXCEPT ![t] = "returned"]
    /\ UNCHANGED <<call_lang, call_missed, overlapped, built_by, seg_vars, cache_vars,
                   pipe_vars, req_vars, key_vars, lock_vars, frame_vars, disp_vars,
                   order_vars, synth_vars>>

\* The lock is taken and the locale is not cached: lines 95-104 construct
\* the handle, insert it and evict the oldest on overflow; line 111 returns
\* the new handle.
ConstructAndReturn(t) ==
    /\ call_pc[t] = "waiting"
    /\ PipelineMiss(pipeline_cache, call_lang[t])
    /\ pipeline_cache' = EvictOldestPipeline(Append(pipeline_cache, call_lang[t]))
    /\ built_by' = [l \in LangCodes |->
           IF l = call_lang[t] THEN t
           ELSE IF l = OldestPipeline(Append(pipeline_cache, call_lang[t])) THEN ""
           ELSE built_by[l]]
    /\ call_handle' = [call_handle EXCEPT ![t] = t]
    /\ call_pc' = [call_pc EXCEPT ![t] = "returned"]
    /\ UNCHANGED <<call_lang, call_missed, overlapped, cache_lock, thr_pc, thr_lang,
                   thr_evicted, seg_vars, cache_vars, req_vars, key_vars, lock_vars,
                   frame_vars, disp_vars, order_vars, synth_vars>>

\* KPipeline raises (line 97): the lock is released, the cache unchanged.
ConstructFails(t) ==
    /\ call_pc[t] = "waiting"
    /\ PipelineMiss(pipeline_cache, call_lang[t])
    /\ call_pc' = [call_pc EXCEPT ![t] = "failed"]
    /\ UNCHANGED <<call_lang, call_handle, call_missed, overlapped, built_by, seg_vars,
                   cache_vars, pipe_vars, req_vars, key_vars, lock_vars, frame_vars,
                   disp_vars, order_vars, synth_vars>>

\* The synthesis call that used the handle ends (or the exception has been
\* handled): the thread is free for its next unit.
EndOfUse(t) ==
    /\ call_pc[t] \in {"returned", "failed"}
    /\ call_pc' = [call_pc EXCEPT ![t] = "idle"]
    /\ call_lang' = [call_lang EXCEPT ![t] = ""]
    /\ call_handle' = [call_handle EXCEPT ![t] = ""]
    /\ call_missed' = [call_missed EXCEPT ![t] = FALSE]
    /\ overlapped' = [u \in Callers |-> IF u = t THEN {} ELSE overlapped[u] \ {t}]
    /\ UNCHANGED <<built_by, seg_vars, cache_vars, pipe_vars, req_vars, key_vars,
                   lock_vars, frame_vars, disp_vars, order_vars, synth_vars>>

AcquireNext ==
    \E t \in Callers :
        \/ CallGetPipeline(t)
        \/ ReturnCached(t)
        \/ ConstructAndReturn(t)
        \/ ConstructFails(t)
        \/ EndOfUse(t)

(***************************************************************************)
(* One request.  The handlers run on the event loop; the synthesis calls   *)
(* (generate_audio_sync) run on threads of audio_executor, which return in *)
(* any order, or never.  A step of the model is what the event loop does   *)
(* between two awaits, or the return of one thread.                        *)
(***************************************************************************)
Max(a, b) == IF a >= b THEN a ELSE b

\* The worker count without its floor of 4: an unknown or small CPU count
\* would give a streaming limit of 0.
OptimalWorkersNoFloor(cpu) == Min(cpu, 12)

\* cpu_count = os.cpu_count() or 4; optimal_workers = min(max(cpu_count, 4), 12)
OptimalWorkers(cpu) == Min(Max(IF cpu = 0 THEN 4 ELSE cpu, 4), 12)

\* max_concurrent = min(optimal_workers // 2, len(text_chunks), 6)
BatchConcurrency(ow, n) == Min(Min(ow \div 2, n), 6)

\* max_concurrent_stream = min(3, optimal_workers // 3)
StreamConcurrency(ow) == Min(3, ow \div 3)

\* chunk_queue = asyncio.Queue(maxsize=max_concurrent_stream + 1)
QueueFull(q) == Len(q) >= sem_limit + 1

\* np.zeros(int(24000 * 0.1)): 2400 samples of silence
Silence == <<"silence", (24000 * 1) \div 10>>

\* generate_audio_sync without its "except Exception": the engine's
\* exception reaches the caller.
generate_audio_sync_raising(outcome, i) ==
    IF outcome = "ok" THEN <<"speech", i>>
    ELSE IF outcome = "empty" THEN Silence
    ELSE <<"error">>

\* What generate_audio_sync returns for unit i: the audio of the unit (from
\* the cache or from the engine), or silence when the engine yields nothing
\* or anything in the try block raises.
generate_audio_sync(outcome, i) ==
    IF outcome = "ok" THEN <<"speech", i>> ELSE Silence

\* A semaphore that admits every caller.
CanAcquireAlways(value) == TRUE

\* asyncio.Semaphore: acquire() returns at once only while the value is
\* positive.
CanAcquire(value) == value > 0

\* The results in the order of completion (asyncio.as_completed).
GatherOrderAsCompleted(n, done_order) == done_order

\* asyncio.gather returns the results in the order of the awaitables passed,
\* whatever the order of completion: position j holds the result of task j.
GatherOrder(n, done_order) == [j \in 1..n |-> j]

\* asyncio.Queue is first in, first out: get() takes the head.
QueueGet(q) == [item |-> Head(q), rest |-> Tail(q)]

Pending(n) == [i \in 1..n |-> "pending"]
Nones(n) == [i \in 1..n |-> "none"]

AllDone == \A i \in 1..n_units : unit_state[i] = "done"

\* The module is imported: lines 45-47.
Startup ==
    /\ handler_pc = "boot"
    /\ \E cpu \in CpuCounts : optimal_workers' = OptimalWorkers(cpu)
    /\ handler_pc' = "ready"
    /\ UNCHANGED <<mode, n_units, sem_limit, sem, unit_vars, prod_vars, queue,
                   stream_end, emitted, disconnected, resp_status, stats,
                   seg_vars, cache_vars, pipe_vars, key_vars, lock_vars, frame_vars, disp_vars, order_vars, synth_vars, acq_vars>>

(***************************************************************************)
(* The worker thread of a unit returns from generate_audio_sync.           *)
(***************************************************************************)
ThreadReturns ==
    /\ \E i \in 1..n_units, outcome \in SynthOutcomes :
          /\ unit_state[i] = "running"
          /\ unit_state' = [unit_state EXCEPT ![i] = "returned"]
          /\ synth_outcome' = [synth_outcome EXCEPT ![i] = outcome]
          /\ unit_audio' = [unit_audio EXCEPT ![i] = generate_audio_sync(outcome, i)]
          /\ completed' = Append(completed, i)
    /\ UNCHANGED <<optimal_workers, mode, handler_pc, n_units, sem_limit, sem,
                   prod_vars, queue, stream_end, emitted, disconnected, resp_status,
                   stats, seg_vars, cache_vars, pipe_vars, key_vars, lock_vars, frame_vars, disp_vars, order_vars, synth_vars, acq_vars>>

(***************************************************************************)
(* POST /tts                                                               *)
(***************************************************************************)
\* Lines 315-352 up to the first await.  A single chunk is submitted to the
\* executor directly; several chunks become tasks behind a semaphore.
TtsStart ==
    /\ handler_pc = "ready"
    /\ \E n \in 1..MaxUnits :
          /\ n_units' = n
          /\ sem_limit' = IF n = 1 THEN 0 ELSE BatchConcurrency(optimal_workers, n)
          /\ sem' = IF n = 1 THEN 0 ELSE BatchConcurrency(optimal_workers, n)
          /\ unit_state' = IF n = 1 THEN <<"running">> ELSE Pending(n)
          /\ synth_outcome' = Nones(n)
          /\ unit_audio' = Nones(n)
    /\ mode' = "batch"
    /\ handler_pc' = "gather"
    /\ stats' = Bump("total_requests")
    /\ UNCHANGED <<optimal_workers, completed, prod_vars, queue, stream_end, emitted,
                   disconnected, resp_status, seg_vars, cache_vars, pipe_vars, key_vars, lock_vars, frame_vars, disp_vars, order_vars, synth_vars, acq_vars>>

\* process_chunk_with_limit enters "async with semaphore" and submits its
\* chunk.  The tasks reach the semaphore in the order gather created them and
\* the semaphore wakes its waiters first come, first served.
BatchAcquire ==
    /\ mode = "batch"
    /\ handler_pc = "gather"
    /\ \E i \in 1..n_units :
          /\ unit_state[i] = "pending"
          /\ \A j \in 1..(i - 1) : unit_state[j] # "pending"
          /\ CanAcquire(sem)
          /\ unit_state' = [unit_state EXCEPT ![i] = "running"]
    /\ sem' = sem - 1
    /\ UNCHANGED <<optimal_workers, mode, handler_pc, n_units, sem_limit,
                   synth_outcome, unit_audio, completed, prod_vars, queue, stream_end,
                   emitted, disconnected, resp_status, stats,
                   seg_vars, cache_vars, pipe_vars, key_vars, lock_vars, frame_vars, disp_vars, order_vars, synth_vars, acq_vars>>

\* The task of a unit resumes with the thread's result and leaves the
\* "async with" (the lone chunk of a short text has no semaphore).
BatchResume ==
    /\ mode = "batch"
    /\ \E i \in 1..n_units :
          /\ unit_state[i] = "returned"
          /\ unit_state' = [unit_state EXCEPT ![i] = "done"]
    /\ sem' = IF sem_limit > 0 THEN sem + 1 ELSE sem
    /\ UNCHANGED <<optimal_workers, mode, handler_pc, n_units, sem_limit,
                   synth_outcome, unit_audio, completed, prod_vars, queue, stream_end,
                   emitted, disconnected, resp_status, stats,
                   seg_vars, cache_vars, pipe_vars, key_vars, lock_vars, frame_vars, disp_vars, order_vars, synth_vars, acq_vars>>

\* gather returns; np.concatenate joins the audio of the units.
BatchGather ==
    /\ mode = "batch"
    /\ handler_pc = "gather"
    /\ AllDone
    /\ emitted' = [j \in 1..n_units |->
                      LET i == GatherOrder(n_units, completed)[j]
                      IN <<"audio", i, unit_audio[i]>>]
    /\ handler_pc' = "write"
    /\ UNCHANGED <<optimal_workers, mode, n_units, sem_limit, sem, unit_vars,
                   prod_vars, queue, stream_end, disconnected, resp_status, stats,
                   seg_vars, cache_vars, pipe_vars, key_vars, lock_vars, frame_vars, disp_vars, order_vars, synth_vars, acq_vars>>

\* write_audio_to_bytes_optimized returns: the response is 200, audio/wav.
BatchRespond ==
    /\ mode = "batch"
    /\ handler_pc = "write"
    /\ resp_status' = "200"
    /\ stats' = Bump("successful_requests")
    /\ handler_pc' = "responded"
    /\ UNCHANGED <<optimal_workers, mode, n_units, sem_limit, sem, unit_vars,
                   prod_vars, queue, stream_end, emitted, disconnected,
                   seg_vars, cache_vars, pipe_vars, key_vars, lock_vars, frame_vars, disp_vars, order_vars, synth_vars, acq_vars>>

\* write_audio_to_bytes_optimized raises: "except Exception" answers 500.
BatchWriteFails ==
    /\ mode = "batch"
    /\ handler_pc = "write"
    /\ resp_status' = "500"
    /\ stats' = Bump("failed_requests")
    /\ handler_pc' = "responded"
    /\ UNCHANGED <<optimal_workers, mode, n_units, sem_limit, sem, unit_vars,
                   prod_vars, queue, stream_end, emitted, disconnected,
                   seg_vars, cache_vars, pipe_vars, key_vars, lock_vars, frame_vars, disp_vars, order_vars, synth_vars, acq_vars>>

(***************************************************************************)
(* POST /tts/stream: the generator wav_stream and its task chunk_producer.  *)
(***************************************************************************)
\* Lines 402-450: the generator runs to its first await with the producer
\* task created.
StreamStart ==
    /\ handler_pc = "ready"
    /\ \E n \in 1..MaxUnits :
          /\ n_units' = n
          /\ unit_state' = Pending(n)
          /\ synth_outcome' = Nones(n)
          /\ unit_audio' = Nones(n)
    /\ mode' = "stream"
    /\ sem_limit' = StreamConcurrency(optimal_workers)
    /\ sem' = StreamConcurrency(optimal_workers)
    /\ prod_pc' = "acquire"
    /\ prod_i' = 1
    /\ handler_pc' = "get"
    /\ stats' = Bump("stream_requests")
    /\ UNCHANGED <<optimal_workers, completed, cancel_requested, queue, stream_end,
                   emitted, disconnected, resp_status, seg_vars, cache_vars, pipe_vars, key_vars, lock_vars, frame_vars, disp_vars, order_vars, synth_vars, acq_vars>>

\* A statement of lines 409-450 raises: the outer "except Exception" yields
\* the text/plain part.
StreamSetupError ==
    /\ handler_pc = "ready"
    /\ mode' = "stream"
    /\ stats' = [stats EXCEPT !["stream_requests"] = @ + 1, !["failed_streams"] = @ + 1]
    /\ stream_end' = "setup_error"
    /\ emitted' = Append(emitted, <<"text">>)
    /\ handler_pc' = "at_err_yield"
    /\ UNCHANGED <<optimal_workers, n_units, sem_limit, sem, unit_vars, prod_vars,
                   queue, disconnected, resp_status, seg_vars, cache_vars, pipe_vars, key_vars, lock_vars, frame_vars, disp_vars, order_vars, synth_vars, acq_vars>>

\* The unit after prod_i, or the end signal.
ProdAdvance ==
    IF prod_i < n_units
    THEN prod_pc' = "acquire" /\ prod_i' = prod_i + 1
    ELSE prod_pc' = "put_none" /\ prod_i' = prod_i

\* "async with semaphore", then the unit goes to audio_executor.
ProdDispatch ==
    /\ prod_pc = "acquire"
    /\ ~cancel_requested
    /\ CanAcquire(sem)
    /\ sem' = sem - 1
    /\ unit_state' = [unit_state EXCEPT ![prod_i] = "running"]
    /\ prod_pc' = "synth"
    /\ UNCHANGED <<optimal_workers, mode, handler_pc, n_units, sem_limit,
                   synth_outcome, unit_audio, completed, prod_i, cancel_requested,
                   queue, stream_end, emitted, disconnected, resp_status, stats,
                   seg_vars, cache_vars, pipe_vars, key_vars, lock_vars, frame_vars, disp_vars, order_vars, synth_vars, acq_vars>>

\* The audio comes back and io_executor encodes it to WAV bytes.
ProdEncode ==
    /\ prod_pc = "synth"
    /\ ~cancel_requested
    /\ unit_state[prod_i] = "returned"
    /\ prod_pc' = "put"
    /\ UNCHANGED <<optimal_workers, mode, handler_pc, n_units, sem_limit, sem,
                   unit_vars, prod_i, cancel_requested, queue, stream_end, emitted,
                   disconnected, resp_status, stats, seg_vars, cache_vars, pipe_vars, key_vars, lock_vars, frame_vars, disp_vars, order_vars, synth_vars, acq_vars>>

\* The encoding raises: the exception leaves the "async with" and the
\* handler of line 441 is to put an empty chunk.
ProdEncodeFails ==
    /\ prod_pc = "synth"
    /\ ~cancel_requested
    /\ unit_state[prod_i] = "returned"
    /\ sem' = sem + 1
    /\ prod_pc' = "put_empty"
    /\ UNCHANGED <<optimal_workers, mode, handler_pc, n_units, sem_limit,
                   unit_vars, prod_i, cancel_requested, queue, stream_end, emitted,
                   disconnected, resp_status, stats, seg_vars, cache_vars, pipe_vars, key_vars, lock_vars, frame_vars, disp_vars, order_vars, synth_vars, acq_vars>>

\* await chunk_queue.put((i, chunk_data)), inside the "async with".
ProdPut ==
    /\ prod_pc = "put"
    /\ ~cancel_requested
    /\ ~QueueFull(queue)
    /\ queue' = Append(queue, <<prod_i, unit_audio[prod_i]>>)
    /\ sem' = sem + 1
    /\ unit_state' = [unit_state EXCEPT ![prod_i] = "done"]
    /\ ProdAdvance
    /\ UNCHANGED <<optimal_workers, mode, handler_pc, n_units, sem_limit,
                   synth_outcome, unit_audio, completed, cancel_requested,
                   stream_end, emitted, disconnected, resp_status, stats,
                   seg_vars, cache_vars, pipe_vars, key_vars, lock_vars, frame_vars, disp_vars, order_vars, synth_vars, acq_vars>>

\* await chunk_queue.put((i, b''))
ProdPutEmpty ==
    /\ prod_pc = "put_empty"
    /\ ~cancel_requested
    /\ ~QueueFull(queue)
    /\ queue' = Append(queue, <<prod_i, "empty">>)
    /\ unit_state' = [unit_state EXCEPT ![prod_i] = "skipped"]
    /\ ProdAdvance
    /\ UNCHANGED <<optimal_workers, mode, handler_pc, n_units, sem_limit, sem,
                   synth_outcome, unit_audio, completed, cancel_requested,
                   stream_end, emitted, disconnected, resp_status, stats,
                   seg_vars, cache_vars, pipe_vars, key_vars, lock_vars, frame_vars, disp_vars, order_vars, synth_vars, acq_vars>>

\* await chunk_queue.put(None)
ProdPutNone ==
    /\ prod_pc = "put_none"
    /\ ~cancel_requested
    /\ ~QueueFull(queue)
    /\ queue' = Append(queue, <<"None">>)
    /\ prod_pc' = "done"
    /\ UNCHANGED <<optimal_workers, mode, handler_pc, n_units, sem_limit, sem,
                   unit_vars, prod_i, cancel_requested, stream_end, emitted,
                   disconnected, resp_status, stats, seg_vars, cache_vars, pipe_vars, key_vars, lock_vars, frame_vars, disp_vars, order_vars, synth_vars, acq_vars>>

\* ProdCancelled for a run_in_executor await that ends only when the worker
\* thread has returned.
ProdCancelledAfterThread ==
    /\ cancel_requested
    /\ prod_pc \in {"acquire", "synth", "put", "put_empty", "put_none"}
    /\ prod_pc = "synth" => unit_state[prod_i] = "returned"
    /\ sem' = IF prod_pc \in {"synth", "put"} THEN sem + 1 ELSE sem
    /\ prod_pc' = "cancelled"
    /\ UNCHANGED <<optimal_workers, mode, handler_pc, n_units, sem_limit,
                   unit_vars, prod_i, cancel_requested, queue, stream_end, emitted,
                   disconnected, resp_status, stats, seg_vars, cache_vars, pipe_vars,
                   key_vars, lock_vars, frame_vars, disp_vars, order_vars, synth_vars, acq_vars>>

\* CancelledError is thrown into the producer at the await it stands at; it
\* is no Exception, so line 441 does not catch it.  Inside the "async with"
\* the semaphore is released on the way out.  The thread of a unit that is
\* running goes on.
ProdCancelled ==
    /\ cancel_requested
    /\ prod_pc \in {"acquire", "synth", "put", "put_empty", "put_none"}
    /\ sem' = IF prod_pc \in {"synth", "put"} THEN sem + 1 ELSE sem
    /\ prod_pc' = "cancelled"
    /\ UNCHANGED <<optimal_workers, mode, handler_pc, n_units, sem_limit,
                   unit_vars, prod_i, cancel_requested, queue, stream_end, emitted,
                   disconnected, resp_status, stats, seg_vars, cache_vars, pipe_vars, key_vars, lock_vars, frame_vars, disp_vars, order_vars, synth_vars, acq_vars>>

\* item = await asyncio.wait_for(chunk_queue.get(), timeout=20.0) returns:
\* the end signal breaks the loop, a chunk with data is yielded as a part, an
\* empty chunk is skipped.
ConsGet ==
    /\ handler_pc = "get"
    /\ queue # <<>>
    /\ LET got == QueueGet(queue) IN
          /\ queue' = got.rest
          /\ IF got.item = <<"None">>
             THEN /\ handler_pc' = "after_loop"
                  /\ stream_end' = "eof"
                  /\ emitted' = emitted
             ELSE IF got.item[2] # "empty"
             THEN /\ handler_pc' = "at_yield"
                  /\ stream_end' = stream_end
                  /\ emitted' = Append(emitted, <<"audio", got.item[1], got.item[2]>>)
             ELSE /\ handler_pc' = "get"
                  /\ stream_end' = stream_end
                  /\ emitted' = emitted
    /\ UNCHANGED <<optimal_workers, mode, n_units, sem_limit, sem, unit_vars,
                   prod_vars, disconnected, resp_status, stats,
                   seg_vars, cache_vars, pipe_vars, key_vars, lock_vars, frame_vars, disp_vars, order_vars, synth_vars, acq_vars>>

\* A statement of the loop body raises before the yield (the print of line
\* 465): "except Exception" of line 474 breaks the loop.
ConsLoopError ==
    /\ handler_pc = "get"
    /\ queue # <<>>
    /\ QueueGet(queue).item # <<"None">>
    /\ QueueGet(queue).item[2] # "empty"
    /\ queue' = QueueGet(queue).rest
    /\ stream_end' = "loop_error"
    /\ handler_pc' = "after_loop"
    /\ UNCHANGED <<optimal_workers, mode, n_units, sem_limit, sem, unit_vars,
                   prod_vars, emitted, disconnected, resp_status, stats,
                   seg_vars, cache_vars, pipe_vars, key_vars, lock_vars, frame_vars, disp_vars, order_vars, synth_vars, acq_vars>>

\* The framework asks for the next part: the generator resumes after the
\* yield, sleeps 1 ms and returns to the head of the loop.
ConsResume ==
    /\ handler_pc = "at_yield"
    /\ handler_pc' = "get"
    /\ UNCHANGED <<optimal_workers, mode, n_units, sem_limit, sem, unit_vars,
                   prod_vars, queue, stream_end, emitted, disconnected, resp_status,
                   stats, seg_vars, cache_vars, pipe_vars, key_vars, lock_vars, frame_vars, disp_vars, order_vars, synth_vars, acq_vars>>

\* ConsTimeout yielding a terminator of its own before it breaks the loop.
ConsTimeoutTerminates ==
    /\ handler_pc = "get"
    /\ queue = <<>>
    /\ prod_pc = "synth"
    /\ stream_end' = "timeout"
    /\ emitted' = Append(emitted, <<"term">>)
    /\ handler_pc' = "after_loop"
    /\ UNCHANGED <<optimal_workers, mode, n_units, sem_limit, sem, unit_vars,
                   prod_vars, queue, disconnected, resp_status, stats,
                   seg_vars, cache_vars, pipe_vars, key_vars, lock_vars, frame_vars, disp_vars, order_vars, synth_vars, acq_vars>>

\* No item within 20 s: the queue is empty and the producer waits for an
\* executor thread.
ConsTimeout ==
    /\ handler_pc = "get"
    /\ queue = <<>>
    /\ prod_pc = "synth"
    /\ stream_end' = "timeout"
    /\ handler_pc' = "after_loop"
    /\ UNCHANGED <<optimal_workers, mode, n_units, sem_limit, sem, unit_vars,
                   prod_vars, queue, emitted, disconnected, resp_status, stats,
                   seg_vars, cache_vars, pipe_vars, key_vars, lock_vars, frame_vars, disp_vars, order_vars, synth_vars, acq_vars>>

\* Lines 479-482: "if not producer_task.done(): producer_task.cancel()",
\* then "await producer_task".
ConsAfterLoop ==
    /\ handler_pc = "after_loop"
    /\ IF prod_pc = "done"
       THEN handler_pc' = "terminate" /\ cancel_requested' = cancel_requested
       ELSE handler_pc' = "await_producer" /\ cancel_requested' = TRUE
    /\ UNCHANGED <<optimal_workers, mode, n_units, sem_limit, sem, unit_vars,
                   prod_pc, prod_i, queue, stream_end, emitted, disconnected,
                   resp_status, stats, seg_vars, cache_vars, pipe_vars, key_vars, lock_vars, frame_vars, disp_vars, order_vars, synth_vars, acq_vars>>

\* "await producer_task" raises CancelledError, which line 483 passes over.
ConsJoin ==
    /\ handler_pc = "await_producer"
    /\ prod_pc = "cancelled"
    /\ handler_pc' = "terminate"
    /\ UNCHANGED <<optimal_workers, mode, n_units, sem_limit, sem, unit_vars,
                   prod_vars, queue, stream_end, emitted, disconnected, resp_status,
                   stats, seg_vars, cache_vars, pipe_vars, key_vars, lock_vars, frame_vars, disp_vars, order_vars, synth_vars, acq_vars>>

\* Lines 487-497: the statistics, then the terminator is yielded.
ConsTerminate ==
    /\ handler_pc = "terminate"
    /\ stats' = Bump("successful_streams")
    /\ emitted' = Append(emitted, <<"term">>)
    /\ handler_pc' = "at_term_yield"
    /\ UNCHANGED <<optimal_workers, mode, n_units, sem_limit, sem, unit_vars,
                   prod_vars, queue, stream_end, disconnected, resp_status,
                   seg_vars, cache_vars, pipe_vars, key_vars, lock_vars, frame_vars, disp_vars, order_vars, synth_vars, acq_vars>>

\* Line 507: after the text/plain part, the terminator.
ConsErrTerminate ==
    /\ handler_pc = "at_err_yield"
    /\ emitted' = Append(emitted, <<"term">>)
    /\ handler_pc' = "at_term_yield"
    /\ UNCHANGED <<optimal_workers, mode, n_units, sem_limit, sem, unit_vars,
                   prod_vars, queue, stream_end, disconnected, resp_status, stats,
                   seg_vars, cache_vars, pipe_vars, key_vars, lock_vars, frame_vars, disp_vars, order_vars, synth_vars, acq_vars>>

\* The generator resumes after the terminator and returns.
ConsFinish ==
    /\ handler_pc = "at_term_yield"
    /\ handler_pc' = "finished"
    /\ UNCHANGED <<optimal_workers, mode, n_units, sem_limit, sem, unit_vars,
                   prod_vars, queue, stream_end, emitted, disconnected, resp_status,
                   stats, seg_vars, cache_vars, pipe_vars, key_vars, lock_vars, frame_vars, disp_vars, order_vars, synth_vars, acq_vars>>

\* The client disconnects: the generator is closed or cancelled where it is
\* suspended, at a yield or in the wait for an item.  GeneratorExit and
\* CancelledError are no Exception: no except clause of wav_stream catches
\* them and there is no finally, so the generator ends there.
Disconnect ==
    /\ \/ handler_pc \in {"at_yield", "at_err_yield", "at_term_yield"}
       \/ handler_pc = "get" /\ queue = <<>>
    /\ handler_pc' = "closed"
    /\ disconnected' = TRUE
    /\ UNCHANGED <<optimal_workers, mode, n_units, sem_limit, sem, unit_vars,
                   prod_vars, queue, stream_end, emitted, resp_status, stats,
                   seg_vars, cache_vars, pipe_vars, key_vars, lock_vars, frame_vars, disp_vars, order_vars, synth_vars, acq_vars>>

\* The cancellation arrives while the generator awaits the producer it has
\* cancelled: "except asyncio.CancelledError: pass" of line 483 takes it for
\* the producer's, and the generator goes on.
DisconnectSwallowed ==
    /\ handler_pc = "await_producer"
    /\ ~disconnected
    /\ disconnected' = TRUE
    /\ UNCHANGED <<optimal_workers, mode, handler_pc, n_units, sem_limit, sem,
                   unit_vars, prod_vars, queue, stream_end, emitted, resp_status,
                   stats, seg_vars, cache_vars, pipe_vars, key_vars, lock_vars, frame_vars, disp_vars, order_vars, synth_vars, acq_vars>>

ReqNext ==
    \/ Startup
    \/ ThreadReturns
    \/ TtsStart
    \/ BatchAcquire
    \/ BatchResume
    \/ BatchGather
    \/ BatchRespond
    \/ BatchWriteFails
    \/ StreamStart
    \/ StreamSetupError
    \/ ProdDispatch
    \/ ProdEncode
    \/ ProdEncodeFails
    \/ ProdPut
    \/ ProdPutEmpty
    \/ ProdPutNone
    \/ ProdCancelled
    \/ ConsGet
    \/ ConsLoopError
    \/ ConsResume
    \/ ConsTimeout
    \/ ConsAfterLoop
    \/ ConsJoin
    \/ ConsTerminate
    \/ ConsErrTerminate
    \/ ConsFinish
    \/ Disconnect
    \/ DisconnectSwallowed

(***************************************************************************)
(* The specifications.                                                     *)
(***************************************************************************)
(* The three locks: _stats_lock, _cache_lock (engine handles) and          *)
(* _audio_cache_lock.  A code path is the sequence of its "with" entries   *)
(* and exits; the two workers run generate_audio_sync, the event loop runs *)
(* the handlers and the maintenance loop, one synchronous stretch at a     *)
(* time.  threading.Lock is not reentrant.                                 *)
(***************************************************************************)
Locks == {"_stats_lock", "_cache_lock", "_audio_cache_lock"}

Acq(l) == [op |-> "acquire", lock |-> l]
Rel(l) == [op |-> "release", lock |-> l]

\* with l: ...
With(l, body) == <<Acq(l)>> \o body \o <<Rel(l)>>

\* "with _stats_lock:" around a statistics update (lines 205, 220, 319,
\* 372, 378, 406, 490, 501, 525, 552, 255, 291).
StatsOps == With("_stats_lock", <<>>)

\* get_pipeline taking _stats_lock first and _cache_lock inside it.
GetPipelineOpsStatsOutside == With("_stats_lock", With("_cache_lock", <<>>))

\* get_pipeline, lines 94-111: the statistics are updated inside
\* "with _cache_lock:".
GetPipelineOps == With("_cache_lock", StatsOps)

\* get_pipeline when KPipeline raises (line 97): the "with" is left.
GetPipelineFailsOps == With("_cache_lock", <<>>)

\* get_cached_audio, cache_audio, the expiry pass and clear_cache: one
\* "with _audio_cache_lock:" each.
AudioCacheOps == With("_audio_cache_lock", <<>>)

\* generate_audio_sync, lines 197-231: a hit; a miss that synthesizes and
\* stores; a miss whose engine yields nothing or raises; a miss whose
\* engine handle cannot be constructed.
GenerateAudioPaths ==
    { AudioCacheOps \o StatsOps,
      AudioCacheOps \o GetPipelineOps \o AudioCacheOps \o StatsOps,
      AudioCacheOps \o GetPipelineOps,
      AudioCacheOps \o GetPipelineFailsOps }

\* The synchronous stretches of the event loop: tts and wav_stream update
\* statistics; health_check calls get_pipeline and copies the statistics;
\* get_stats copies them; cleanup_task reads the request count and, on its
\* expiry pass, takes the audio lock and then the statistics lock;
\* clear_cache takes the audio lock.
LoopPaths ==
    { StatsOps,
      GetPipelineOps \o StatsOps,
      GetPipelineFailsOps,
      StatsOps \o AudioCacheOps \o StatsOps,
      AudioCacheOps }

PathsOf(t) == IF t = "loop" THEN LoopPaths ELSE GenerateAudioPaths

Holder(l) == {t \in Threads : \E i \in 1..Len(held[t]) : held[t][i] = l}

BeginPath(t) ==
    /\ todo[t] = <<>>
    /\ \E path \in PathsOf(t) : todo' = [todo EXCEPT ![t] = path]
    /\ UNCHANGED <<held, seg_vars, cache_vars, pipe_vars, req_vars, key_vars, lock_vars,
                   frame_vars, disp_vars, synth_vars, acq_vars>>

AcquireLock(t) ==
    /\ todo[t] # <<>>
    /\ Head(todo[t]).op = "acquire"
    /\ Holder(Head(todo[t]).lock) = {}
    /\ held' = [held EXCEPT ![t] = Append(@, Head(todo[t]).lock)]
    /\ todo' = [todo EXCEPT ![t] = Tail(@)]
    /\ UNCHANGED <<seg_vars, cache_vars, pipe_vars, req_vars, key_vars, lock_vars,
                   frame_vars, disp_vars, synth_vars, acq_vars>>

ReleaseLock(t) ==
    /\ todo[t] # <<>>
    /\ Head(todo[t]).op = "release"
    /\ held' = [held EXCEPT ![t] = SelectSeq(@, LAMBDA l : l # Head(todo[t]).lock)]
    /\ todo' = [todo EXCEPT ![t] = Tail(@)]
    /\ UNCHANGED <<seg_vars, cache_vars, pipe_vars, req_vars, key_vars, lock_vars,
                   frame_vars, disp_vars, synth_vars, acq_vars>>

OrderNext == \E t \in Threads : BeginPath(t) \/ AcquireLock(t) \/ ReleaseLock(t)

(***************************************************************************)
SpecSeg == Init /\ [][SegNext]_vars

SpecDispatch == Init /\ [][DispatchNext]_vars

SpecCache == Init /\ [][CacheNext]_vars

SpecPipe == Init /\ [][PipeNext]_vars

Spec == Init /\ [][ReqNext]_vars

\* The steps of a streaming response that the event loop takes by itself:
\* a coroutine that can go on is resumed, the 20 s timer of wait_for fires
\* when no item arrives, and a connected client asks for the next part.
\* The return of a worker thread (ThreadReturns) is not among them: a
\* synthesis call may never return.
StreamStep ==
    \/ StreamStart \/ StreamSetupError
    \/ ProdDispatch \/ ProdEncode \/ ProdEncodeFails \/ ProdPut \/ ProdPutEmpty
    \/ ProdPutNone \/ ProdCancelled
    \/ ConsGet \/ ConsLoopError \/ ConsResume \/ ConsTimeout \/ ConsAfterLoop
    \/ ConsJoin \/ ConsTerminate \/ ConsErrTerminate

SpecStreamFair == Init /\ [][ReqNext]_vars /\ WF_vars(StreamStep)

SpecOrder == Init /\ [][OrderNext]_vars

SpecAcquire == Init /\ [][AcquireNext]_vars

SpecSynth == Init /\ [][SynthNext]_vars

SpecKey == Init /\ [][KeyNext]_vars

SpecLock == Init /\ [][LockNext]_vars

SpecFrame == Init /\ [][FrameNext]_vars

(***************************************************************************)
(* The properties.                                                         *)
(***************************************************************************)
\* The unit indices of the audio frames of e, in the order of emission.
RECURSIVE AudioIndices(_)
AudioIndices(e) ==
    IF e = <<>> THEN <<>>
    ELSE IF Head(e)[1] = "audio" THEN <<Head(e)[2]>> \o AudioIndices(Tail(e))
    ELSE AudioIndices(Tail(e))

Running == {i \in 1..n_units : unit_state[i] = "running"}

\* C1: in batch and in streaming mode the audio units handed to the caller
\* are in strictly increasing unit index, whatever the order in which the
\* worker threads returned.
C1_OutputInUnitOrder ==
    LET idx == AudioIndices(emitted) IN
    \A j, k \in 1..Len(idx) : j < k => idx[j] < idx[k]

\* A batch request whose second thread to return was an earlier unit than
\* its first, and whose audio has been assembled.
C1_Witness ==
    /\ mode = "batch"
    /\ Len(completed) >= 2
    /\ completed[1] > completed[2]
    /\ Len(emitted) = n_units
    /\ n_units >= 2

\* A string without its whitespace.
RECURSIVE RemoveSpace(_)
RemoveSpace(s) ==
    IF s = <<>> THEN <<>>
    ELSE IF IsSpace(Head(s)) THEN RemoveSpace(Tail(s))
    ELSE <<Head(s)>> \o RemoveSpace(Tail(s))

\* The units concatenated in index order.
RECURSIVE Concat(_)
Concat(cs) == IF cs = <<>> THEN <<>> ELSE Head(cs) \o Concat(Tail(cs))

\* C2: the units of the segmenter, concatenated in index order, equal the
\* text up to whitespace: no non-whitespace character is dropped or added.
C2_UnitsReconstructText ==
    seg_pc = "split" => RemoveSpace(Concat(text_chunks)) = RemoveSpace(text)

\* C3: every unit of the segmenter holds at most max_words words (a unit of
\* one single token is within every bound the request accepts).
C3_UnitWithinBound ==
    seg_pc = "split" =>
        \A i \in 1..Len(text_chunks) : Len(SplitWords(text_chunks[i])) <= max_words

\* A text of more words than the bound, split in several units of which one
\* holds exactly max_words words, two or more.
C3_Witness ==
    /\ seg_pc = "split"
    /\ max_words >= 2
    /\ Len(SplitWords(text)) > max_words
    /\ Len(text_chunks) >= 2
    /\ \E i \in 1..Len(text_chunks) : Len(SplitWords(text_chunks[i])) = max_words

\* C4: after any put, in any sequence of get, put, expiry pass and clear,
\* the Audio Result Cache holds at most max_cache_size entries.
C4_CacheWithinCapacity == Len(audio_cache) <= max_cache_size

\* A put that found the cache full has evicted and inserted a key.
C4_Witness ==
    /\ cache_evicted > 0
    /\ Len(audio_cache) = max_cache_size

\* C5: once every get_pipeline call has returned (no thread holds
\* _cache_lock), the Engine Handle Cache holds at most MaxPipelines handles.
C5_PipelinesWithinMaximum ==
    cache_lock = "free" => Len(pipeline_cache) <= MaxPipelines

\* Every call has returned, the cache is at its maximum, and an eviction has
\* taken place (it deleted the handle a thread was using).
C5_Witness ==
    /\ cache_lock = "free"
    /\ Len(pipeline_cache) = MaxPipelines
    /\ \E t \in Threads : thr_evicted[t]

\* C6: a unit whose synthesis raises or yields nothing results in the
\* silence buffer of 2400 samples; the failure does not surface (no
\* text/plain part but for an error of the stream's setup), and the audio of
\* every unit is in place when the batch is assembled or the stream has
\* consumed the end signal.
C6_FailedUnitIsSilence ==
    /\ \A i \in 1..n_units :
          synth_outcome[i] \in {"empty", "raise"} => unit_audio[i] = <<"silence", 2400>>
    /\ (mode = "batch" /\ handler_pc \in {"write", "responded"}) =>
          emitted = [i \in 1..n_units |-> <<"audio", i, unit_audio[i]>>]
    /\ (mode = "stream" /\ stream_end = "eof") =>
          \A i \in 1..n_units :
              unit_state[i] = "done" =>
                  \E j \in 1..Len(emitted) : emitted[j] = <<"audio", i, unit_audio[i]>>
    /\ (mode = "stream" /\ stream_end # "setup_error") =>
          /\ \A j \in 1..Len(emitted) : emitted[j] # <<"text">>
          /\ stats["failed_streams"] = 0
    /\ (mode = "stream" /\ handler_pc = "finished" /\ stream_end # "setup_error") =>
          stats["successful_streams"] = 1

\* A batch answered 200 in which the synthesis of one unit raised and that
\* of another succeeded.
C6_Witness ==
    /\ mode = "batch"
    /\ resp_status = "200"
    /\ \E i, j \in 1..n_units :
          synth_outcome[i] = "raise" /\ synth_outcome[j] = "ok"

\* C7: a stream emits its terminator once and as its last frame, and a
\* generator that ran to its end has emitted it.
C7_OneTerminatorLast ==
    /\ \A j \in 1..Len(emitted) : emitted[j] = <<"term">> => j = Len(emitted)
    /\ handler_pc = "finished" =>
          (emitted # <<>> /\ emitted[Len(emitted)] = <<"term">>)

\* A stream that emitted a unit, then met the fetch timeout, and ran to its
\* end.
C7_Witness ==
    /\ handler_pc = "finished"
    /\ stream_end = "timeout"
    /\ Len(emitted) >= 2

\* C8: the units of a request whose synthesis call is running, admitted by
\* the request's semaphore, are never more than the semaphore's limit.
C8_InFlightWithinLimit ==
    sem_limit > 0 => Cardinality(Running) <= sem_limit

\* A batch of more units than the limit with as many calls running as the
\* limit allows and a unit waiting at the semaphore.
C8_Witness ==
    /\ mode = "batch"
    /\ n_units > sem_limit
    /\ sem_limit > 0
    /\ Cardinality(Running) = sem_limit
    /\ \E i \in 1..n_units : unit_state[i] = "pending"

\* The units that have been dispatched to a worker.
Dispatched == {i \in 1..n_units : unit_state[i] # "pending"}

\* The frames of e but the terminator.
RECURSIVE Fragments(_)
Fragments(e) ==
    IF e = <<>> THEN <<>>
    ELSE IF Head(e) = <<"term">> THEN Fragments(Tail(e))
    ELSE <<Head(e)>> \o Fragments(Tail(e))

\* C9: once the client's disconnect has reached the generator, no further
\* unit is dispatched and no further fragment is emitted, and a stream that
\* ends by it has emitted the terminator.
C9_DisconnectStopsStream ==
    [][/\ disconnected =>
            (Dispatched' = Dispatched /\ Fragments(emitted') = Fragments(emitted))
       /\ handler_pc' = "closed" =>
            (emitted' # <<>> /\ emitted'[Len(emitted')] = <<"term">>)]_vars

\* C10: when the streaming handler has finished, by its end or by the
\* client's disconnect, its producer task has ended (it was never created,
\* it completed, or it was cancelled).
C10_ProducerEndsWithHandler ==
    handler_pc \in {"finished", "closed"} => prod_pc \in {"none", "done", "cancelled"}

\* C11: a request one of whose units met a failure of the construction of
\* the engine handle (get_pipeline raised) fails: the batch answers 500, the
\* stream carries a text/plain part with the message.
C11_EngineFailureSurfaced ==
    /\ (mode = "batch" /\ handler_pc = "responded"
          /\ \E i \in 1..n_units : synth_outcome[i] = "no_engine")
         => resp_status = "500"
    /\ (mode = "stream" /\ handler_pc = "finished"
          /\ \E i \in 1..n_units : synth_outcome[i] = "no_engine")
         => \E j \in 1..Len(emitted) : emitted[j] = <<"text">>

\* C12: two lookups get the same key exactly when they agree in text,
\* voice, speed and locale, also when a component holds the ':' that joins
\* them.
C12_KeyDistinguishesLookups ==
    (lookup_a # "none" /\ lookup_b # "none") =>
        ((key_a = key_b) <=> (lookup_a = lookup_b))

\* C13: a get of k right after a put of k with value v (the clock has not
\* moved) returns v, also when the put found the cache full and evicted.
C13_GetAfterPut ==
    \A k \in CacheKeys :
        LET put == cache_audio(audio_cache, k, Synth(k), now) IN
        get_cached_audio(put, k, now).result = Synth(k)

\* A put has evicted and appended its entry, and a get of that key now hits.
C13_Witness ==
    /\ cache_evicted > 0
    /\ now > 0
    /\ LET e == audio_cache[Len(audio_cache)] IN
          /\ e.ts = now
          /\ get_cached_audio(audio_cache, e.key, now).result = e.audio

\* The age of the entry of key k.
Age(k) == now - EntryOf(audio_cache, k).ts

\* C14: a get on an entry whose age has reached the TTL misses and leaves
\* the cache without that entry and otherwise as it was; and were the TTL 0,
\* a get of any key put before would miss after an expiry pass.
C14_ExpiredGetMisses ==
    \A k \in CachedKeys(audio_cache) :
        /\ Age(k) >= cache_ttl =>
              LET r == get_cached_audio(audio_cache, k, now) IN
              /\ r.result = "None"
              /\ r.cache = SelectSeq(audio_cache, LAMBDA e : e.key # k)
        /\ LET passed == DelKeys(audio_cache, ExpiredKeysWithin(audio_cache, now, 0)) IN
              get_cached_audio_within(passed, k, now, 0).result = "None"

\* The cache holds an entry whose age is exactly the TTL, which the expiry
\* pass would keep, beside a fresh one.
C14_Witness ==
    \E k, other \in CachedKeys(audio_cache) :
        /\ Age(k) = cache_ttl
        /\ Age(other) < cache_ttl
        /\ get_cached_audio(audio_cache, k, now).result = "None"
        /\ k \notin ExpiredKeys(audio_cache, now)

\* C15: no thread that is using an engine handle (its synthesis call is
\* running) has had that handle evicted from the Engine Handle Cache.
C15_NoEvictionInUse ==
    \A t \in Threads : thr_pc[t] = "using" => ~thr_evicted[t]

\* C16: a text that is empty or only whitespace is rejected with status 400
\* by either handler and is never segmented, and the rejection changes no
\* statistics counter, audio cache entry, engine handle or segmentation
\* result.
C16_EmptyTextRejected ==
    [][/\ seg_pc' = "rejected" =>
            /\ Strip(text) = <<>>
            /\ resp_status' = "400"
            /\ UNCHANGED <<stats, audio_cache, pipeline_cache, text_chunks, max_words>>
       /\ (Strip(text) = <<>> /\ seg_pc' # seg_pc) => seg_pc' = "rejected"]_vars

\* A text of whitespace alone has been rejected by the streaming endpoint.
C16_Witness ==
    /\ seg_pc = "rejected"
    /\ text # <<>>
    /\ mode = "stream"
    /\ resp_status = "400"
    /\ stats["total_requests"] = 0

\* C17: a stream whose consumer loop met an exception has emitted exactly
\* one text/plain part, directly followed by the terminator.
C17_MidStreamErrorPart ==
    (stream_end = "loop_error" /\ handler_pc = "finished") =>
        LET n == Len(emitted) IN
        /\ n >= 2
        /\ emitted[n] = <<"term">>
        /\ emitted[n - 1] = <<"text">>
        /\ Cardinality({j \in 1..n : emitted[j] = <<"text">>}) = 1

\* C18: a stream ended by the fetch timeout is not recorded as a stream
\* that completed successfully.
C18_TimeoutNotSuccess ==
    (stream_end = "timeout" /\ handler_pc = "finished") =>
        stats["successful_streams"] = 0

\* C19: when the whole trimmed text is within the bound (in words, the
\* code's measure), the segmenter returns one unit, the trimmed text itself
\* with its punctuation.
C19_ShortTextIsOneUnit ==
    (seg_pc = "split" /\ Len(SplitWords(Strip(text))) <= max_words) =>
        text_chunks = <<Strip(text)>>

\* C20: for a text with a non-whitespace character the segmenter returns at
\* least one unit, and no unit is empty or only whitespace.
C20_UnitsNonEmpty ==
    seg_pc = "split" =>
        /\ Len(text_chunks) >= 1
        /\ \A i \in 1..Len(text_chunks) : Strip(text_chunks[i]) # <<>>

\* A text that opens with sentence punctuation, whose first sentence is
\* therefore empty and skipped, has been segmented.
C20_Witness ==
    /\ seg_pc = "split"
    /\ Head(SplitSentences(Strip(text))) = <<>>
    /\ Len(SplitSentences(Strip(text))) >= 2
    /\ Len(text_chunks) >= 1

\* C21: the event-loop thread never constructs an engine handle itself: it
\* is never the thread inside get_pipeline's miss branch.
C21_EventLoopNeverConstructs ==
    thr_pc["loop"] \notin {"inserted", "failed"}

\* The threads inside a "with _audio_cache_lock:" block.
InBlock == {a \in CacheThreads : op_pc[a] # "idle"}

C23_MultipartRoundTrip ==
    frame_pc = "parsed" =>
        parsed = [i \in 1..Len(sent) |->
                     [ctype |-> <<sent[i].ctype>>,
                      length |-> <<Digit(Len(sent[i].data))>>,
                      body |-> sent[i].data]]

\* C24: in every state, also those a read of len(_pipeline_cache) without
\* the lock may observe, the Engine Handle Cache holds at most MaxPipelines
\* handles.
C24_PipelinesWithinMaximumAlways == Len(pipeline_cache) <= MaxPipelines

\* The handles of c as a set.
Handles(c) == {c[i] : i \in 1..Len(c)}

\* C25: the step that ends a miss evicts, when the cache is above its
\* maximum, the one handle inserted earliest and nothing else, never the
\* handle just created, which is the one returned; a hit leaves the cache
\* and its order as they are.
C25_EvictsOldestInserted ==
    [][\A t \in Threads :
          /\ (thr_pc[t] = "inserted" /\ thr_pc'[t] = "using") =>
                /\ pipeline_cache' =
                      IF Len(pipeline_cache) > MaxPipelines
                      THEN Tail(pipeline_cache) ELSE pipeline_cache
                /\ thr_lang'[t] = pipeline_cache[Len(pipeline_cache)]
                /\ thr_lang'[t] \in Handles(pipeline_cache')
          /\ (thr_pc[t] = "idle" /\ thr_pc'[t] = "using") =>
                /\ pipeline_cache' = pipeline_cache
                /\ thr_lang'[t] \in Handles(pipeline_cache')]_vars

\* A miss has evicted the oldest handle while a thread was using it (a hit
\* had not saved it), and the thread of the miss uses the newest handle.
C25_Witness ==
    /\ Len(pipeline_cache) = MaxPipelines
    /\ \E t, u \in Threads :
          /\ t # u
          /\ thr_evicted[t]
          /\ thr_lang[t] \notin Handles(pipeline_cache)
          /\ thr_pc[u] = "using"
          /\ thr_lang[u] = pipeline_cache[Len(pipeline_cache)]

\* C26: when the construction of a handle fails, the exception leaves
\* get_pipeline with the Engine Handle Cache as it was and _cache_lock
\* free, so that other threads go on acquiring.
C26_FailedConstructionLeavesCache ==
    [][\A t \in Threads :
          (thr_pc'[t] = "failed" /\ thr_pc[t] # "failed") =>
              /\ pipeline_cache' = pipeline_cache
              /\ cache_lock' = "free"]_vars

\* While one thread handles the exception of a failed construction, another
\* is inside get_pipeline with the lock.
C26_Witness ==
    \E t, u \in Threads :
        /\ thr_pc[t] = "failed"
        /\ thr_pc[u] = "inserted"
        /\ cache_lock = u
        /\ thr_lang[t] \notin Handles(pipeline_cache)

\* C27: whenever a put runs its eviction pass, every entry it evicts has a
\* timestamp no later than that of every entry that survives.
C27_EvictsOldestByTimestamp ==
    LET evicted == EvictedKeys(audio_cache) IN
    \A i, j \in 1..Len(audio_cache) :
        (audio_cache[i].key \in evicted /\ audio_cache[j].key \notin evicted)
            => audio_cache[i].ts <= audio_cache[j].ts

\* A full cache whose order in the dict is not the order of the timestamps:
\* the pass evicts an entry that stands behind a younger one it keeps.
C27_Witness ==
    /\ Len(audio_cache) = max_cache_size
    /\ \E i, j \in 1..Len(audio_cache) :
          /\ i < j
          /\ audio_cache[i].ts > audio_cache[j].ts
          /\ audio_cache[j].key \in EvictedKeys(audio_cache)
          /\ audio_cache[i].key \notin EvictedKeys(audio_cache)

\* C28: a put of a key the cache already holds, the cache being exactly at
\* its capacity, evicts no entry: the cache holds the same keys afterwards.
C28_PutOfPresentKeyEvictsNothing ==
    \A k \in CachedKeys(audio_cache) :
        Len(audio_cache) = max_cache_size =>
            CachedKeys(cache_audio(audio_cache, k, Synth(k), now)) = CachedKeys(audio_cache)

\* The TTLs a hit is looked at with: the clock counts in units of
\* cache_ttl, under which only an entry of age 0 hits, so longer ones are
\* taken too, under which an older entry hits and its timestamp moves.
Ttls == cache_ttl..(MaxTime + 1)

\* C29: a get that hits sets the entry's timestamp to the current time, and
\* an eviction pass on the cache it leaves evicts that entry only together
\* with every entry of an older timestamp.
C29_HitRefreshesTimestamp ==
    \A k \in CachedKeys(audio_cache), ttl \in Ttls :
        LET r == get_cached_audio_within(audio_cache, k, now, ttl) IN
        r.result # "None" =>
            /\ EntryOf(r.cache, k).ts = now
            /\ k \in EvictedKeys(r.cache) =>
                  \A i \in 1..Len(r.cache) :
                      r.cache[i].ts < now => r.cache[i].key \in EvictedKeys(r.cache)

\* A full cache whose oldest entry, the next to be evicted, is read before
\* its TTL: the hit moves its timestamp and the pass takes another entry.
C29_Witness ==
    /\ Len(audio_cache) = max_cache_size
    /\ \E k \in CachedKeys(audio_cache), ttl \in Ttls :
          LET r == get_cached_audio_within(audio_cache, k, now, ttl) IN
          /\ Age(k) > 0
          /\ k \in EvictedKeys(audio_cache)
          /\ r.result # "None"
          /\ k \notin EvictedKeys(r.cache)


(***************************************************************************)
(* C30: for every CPU count and every unit count, the limit of the         *)
(* semaphore a request creates, in batch mode and in streaming mode, is at *)
(* least 1 and at most min(optimal_workers / 2, 6, number of units).       *)
(* A batch request of a single unit creates no semaphore (line 326), nor   *)
(* does a streaming request that failed before it split its text.          *)
(***************************************************************************)
HasSemaphore ==
    \/ mode = "stream" /\ n_units >= 1
    \/ mode = "batch" /\ n_units >= 2

C30_ConcurrencyLimitInRange ==
    HasSemaphore =>
        /\ sem_limit >= 1
        /\ sem_limit <= Min(Min(optimal_workers \div 2, 6), n_units)

\* C30, as amended: the limit is at least 1 and at most
\* min(optimal_workers / 2, 6) in both modes; the number of units bounds it
\* in batch mode only.
C30_ConcurrencyLimitAmended ==
    HasSemaphore =>
        /\ sem_limit >= 1
        /\ sem_limit <= Min(optimal_workers \div 2, 6)
        /\ mode = "batch" => sem_limit <= n_units

\* A streaming request whose semaphore admits more units than it has.
C30_Witness ==
    /\ mode = "stream"
    /\ n_units >= 1
    /\ sem_limit > n_units

\* The letters of a text in reading order, without whitespace and
\* punctuation.
Letters(s) == SelectSeq(s, LAMBDA c : c \notin {" ", ".", ","})

\* C31: the units are in input order: the words of the units read in index
\* order are the input's words in their original order (compared letter by
\* letter, as the separators between sentences and clauses are not kept).
C31_UnitsInInputOrder ==
    seg_pc = "split" => Letters(Concat(text_chunks)) = Letters(text)

\* C32: in both modes the text of the cache lookup and of the engine call
\* for unit i is the text of unit i of the segmenter, a single unit
\* included (generate_audio_sync derives the key and the engine input from
\* the one argument it is given, lines 201 and 209).
C32_SubmittedTextIsUnitText ==
    seg_pc \in {"batch", "stream"} => submitted = text_chunks

\* C33: every wake-up of the maintenance loop performs the expiry pass over
\* all stale entries: whatever the cache, the time and the request count the
\* wake-up reads, it leaves no entry older than the TTL (so that a stale
\* entry that is never read again is gone after the next wake-up).
C33_WakeUpExpiresStale ==
    \A tr \in TotalRequestsSeen :
        ExpiredKeys(cleanup_pass(audio_cache, now, tr), now) = {}

\* The terminator frame has been yielded.
TerminatorSent == \E i \in 1..Len(emitted) : emitted[i] = <<"term">>

\* C34: a streaming response whose client stays connected eventually
\* reaches the terminator frame, also when the synthesis call of a unit
\* never returns.
C34_StreamReachesTerminator ==
    (mode = "stream") ~> (disconnected \/ TerminatorSent)

\* The timeout ended the stream and the terminator went out to a connected
\* client while the worker thread of a unit was still running.
C34_Witness ==
    /\ mode = "stream"
    /\ stream_end = "timeout"
    /\ TerminatorSent
    /\ ~disconnected
    /\ \E i \in 1..n_units : unit_state[i] = "running"

\* The threads that wait for a lock another thread holds.
Waiting == {t \in Threads : /\ todo[t] # <<>>
                            /\ Head(todo[t]).op = "acquire"
                            /\ Holder(Head(todo[t]).lock) # {}}

\* C35: _stats_lock is only taken innermost (alone or inside _cache_lock),
\* _cache_lock and _audio_cache_lock are only taken by a thread that holds
\* no lock, and no set of threads waits in a circle: in every set of
\* waiting threads one waits for a lock whose holder is outside the set.
C35_ConsistentLockOrder ==
    /\ \A t \in Threads :
          held[t] \in {<<>>, <<"_stats_lock">>, <<"_cache_lock">>,
                       <<"_audio_cache_lock">>, <<"_cache_lock", "_stats_lock">>}
    /\ \A S \in SUBSET Waiting :
          S # {} => \E t \in S : Holder(Head(todo[t]).lock) \cap S = {}

\* A thread inside get_pipeline holds _cache_lock and _stats_lock while a
\* second thread waits for one of them and a third holds the audio lock.
C35_Witness ==
    /\ \E t \in Threads : held[t] = <<"_cache_lock", "_stats_lock">>
    /\ Waiting # {}
    /\ Holder("_audio_cache_lock") # {}

\* C36: callers whose get_pipeline calls for the same locale ran at the
\* same time, the locale not being cached when they called, hold the same
\* handle: one was constructed and returned to each of them.
C36_OneHandlePerLocale ==
    \A t \in Callers : \A u \in overlapped[t] :
        ( /\ call_pc[t] = "returned" /\ call_pc[u] = "returned"
          /\ call_lang[t] = call_lang[u]
          /\ call_missed[t] /\ call_missed[u] )
        => call_handle[t] = call_handle[u]

\* C37: a call of generate_audio_sync that returns the substituted silence
\* inserts and modifies no entry: the cache is the one the call found,
\* less the expired entry of its key; no entry holds silence; and a later
\* call for the same key whose engine succeeds returns the engine's audio.
C37_SilenceNeverCached ==
    /\ \A i \in 1..Len(audio_cache) : audio_cache[i].audio # "silence"
    /\ call_result = "silence" =>
          /\ audio_cache = DelKeys(cache_before, {call_key})
          /\ generate_audio_sync_on_cache(audio_cache, call_key, now, "ok").result
                 = Synth(call_key)

\* A call returned silence for a key whose expired entry it had found in a
\* cache that holds other entries.
C37_Witness ==
    /\ call_result = "silence"
    /\ call_key \in CachedKeys(cache_before)
    /\ Len(audio_cache) >= 1

====
